---- MODULE Spec2Model ----
(***************************************************************************)
(* A model of the easypdfjs drawing surface (EasyPdfInternal), its path    *)
(* builder (PathState), the line style model (LineStyle, applyLineStyle)   *)
(* and the kerning-pair compression (compressKerningPairs).                *)
(*                                                                         *)
(* The surface object and the objects it owns are one record, pdf.  Every  *)
(* method is an operator from such a record to the record after the call;  *)
(* a thrown error is the field err, and every operator leaves a record     *)
(* whose err is set untouched, which is how an exception skips the rest of *)
(* a handler while the effects before the throw stay.  Lengths are in      *)
(* points, line widths in tenths of a point.                               *)
(***************************************************************************)
EXTENDS Integers, Sequences, FiniteSets, TLC

VARIABLES
  pdf,       \* the EasyPdfInternal object, its PathState, the heap of user objects
  call,      \* the public operation called last, with its arguments
  restorer,  \* the closure returned by the last saveState(), <<>> when none
  kern,      \* the kerning-pair arrays of the compression runs
  encoding   \* the input and the outcomes of the createCode128 calls

vars == <<pdf, call, restorer, kern, encoding>>

-----------------------------------------------------------------------------
(* Bounds of the model *)

\* pages a document gets
MaxPages == 2
\* pending segments of the open path
MaxSegments == 2
MaxPending == 1
MaxChanges == 1
\* kerning pairs of an input array
MaxPairs == 4
\* characters of a text
MaxChars == 5
\* characters of a createCode128 input
MaxData == 4
\* digits of an all-digit createCode128 input
MaxDigits == 6
\* fonts the document gets
MaxFonts == 1
\* the largest numerator of a value to convert
MaxValue == 3
\* bars of a pattern between its margins
MaxBars == 3
\* rows and columns of a QR matrix inside its margins
MaxModules == 1

-----------------------------------------------------------------------------
(* Numbers *)

\* a non-finite number (NaN, Infinity): what Number.isFinite rejects
NaN == -99999

IsFinite(v) == v # NaN

\* JavaScript addition: a non-finite operand gives a non-finite sum
Add(a, b) == IF IsFinite(a) /\ IsFinite(b) THEN a + b ELSE NaN

\* one inch in points
PointsPerInch == 72

ScaleModes == {"Hundredths", "Inches", "Points", "Centimeters", "Millimeters"}

\* EasyPdfInternal.toPoints, on a finite value
toPoints(mode, value) ==
  CASE mode = "Hundredths" -> (value * PointsPerInch) \div 100
    [] mode = "Inches" -> value * PointsPerInch
    [] OTHER -> value

\* EasyPdfInternal.fromPoints
fromPoints(mode, value) ==
  CASE mode = "Hundredths" -> (value \div PointsPerInch) * 100
    [] mode = "Inches" -> value \div PointsPerInch
    [] OTHER -> value

\* the value a caller writes for `inches` inches in a scale mode
UserValue(mode, inches) ==
  CASE mode = "Hundredths" -> inches * 100
    [] mode = "Inches" -> inches
    [] OTHER -> inches * PointsPerInch

\* a quotient that is kept as its two terms: a word spacing, a bar
\* width, a length that is not a whole number.  A quotient by 0 is not a
\* finite number.
Quotient(num, den) == [num |-> num, den |-> den]

IsFiniteQuotient(v) == v.den # 0

\* two quotients are the same number
SameNumber(a, b) == a.num * b.den = b.num * a.den

\* the sum of two quotients
Sum(a, b) == Quotient(a.num * b.den + b.num * a.den, a.den * b.den)

\* EasyPdfInternal.toPoints on a quotient: value * 0.01 * 72, value * 72 or
\* the value
toPointsExact(mode, value) ==
  CASE mode = "Hundredths" -> Quotient(value.num * PointsPerInch, value.den * 100)
    [] mode = "Inches" -> Quotient(value.num * PointsPerInch, value.den)
    [] OTHER -> value

\* a variant that divides by 100 where fromPoints multiplies
fromPointsExact_Divided(mode, value) ==
  CASE mode = "Hundredths" -> Quotient(value.num, value.den * PointsPerInch * 100)
    [] mode = "Inches" -> Quotient(value.num, value.den * PointsPerInch)
    [] OTHER -> value

\* EasyPdfInternal.fromPoints on a quotient: (value / 72) * 100, value / 72
\* or the value
fromPointsExact(mode, value) ==
  CASE mode = "Hundredths" -> Quotient(value.num * 100, value.den * PointsPerInch)
    [] mode = "Inches" -> Quotient(value.num, value.den * PointsPerInch)
    [] OTHER -> value

-----------------------------------------------------------------------------
(* Line styles *)

\* LineDashStyle objects, compared by reference: the presets and one custom
\* object with the values of Dash
DashStyles == {"Solid", "Dash", "CustomDash"}

DashArray(d) == IF d = "Solid" THEN <<>> ELSE <<6, 6>>

DashPhase(d) == IF d = "Solid" THEN 0 ELSE 3

\* LineCapStyle: Butt = 0, Round = 1, Square = 2
LineCapStyles == {0, 1, 2}

\* LineJoinStyle: Miter = 0, Rounded = 1, Bevel = 2
LineJoinStyles == {0, 1, 2}

\* LineStyle constructor defaults: 0.1 points, Butt, Miter, Solid
DefaultWidth == 1

\* new LineStyle(width, capStyle, joinStyle, dashStyle); a null dash style
\* becomes Solid, the width is stored as given
NewLineStyle(width, capStyle, joinStyle, dashStyle) ==
  [width |-> width, capStyle |-> capStyle, joinStyle |-> joinStyle,
   dashStyle |-> IF dashStyle = "null" THEN "Solid" ELSE dashStyle]

DefaultLineStyle == NewLineStyle(DefaultWidth, 0, 0, "null")

cloneLineStyle(ls) == NewLineStyle(ls.width, ls.capStyle, ls.joinStyle, ls.dashStyle)

Op(name, args) == [op |-> name, args |-> args]

MulSeq(s, k) == [i \in 1..Len(s) |-> s[i] * k]

\* a variant that pushes the dash pattern only when the dash style differs
applyLineStyleOps_DashOnStyleOnly(ls, last) ==
  LET none == last = <<>>
      arr == MulSeq(DashArray(ls.dashStyle), ls.width)
      phase == DashPhase(ls.dashStyle) * (IF Len(arr) > 0 THEN ls.width ELSE 0)
  IN  (IF none \/ last[1].width # ls.width
         THEN <<Op("SetLineWidth", <<ls.width>>)>> ELSE <<>>)
      \o (IF none \/ last[1].capStyle # ls.capStyle
            THEN <<Op("SetLineCapStyle", <<ls.capStyle>>)>> ELSE <<>>)
      \o (IF none \/ last[1].joinStyle # ls.joinStyle
            THEN <<Op("SetLineJoinStyle", <<ls.joinStyle>>)>> ELSE <<>>)
      \o (IF none \/ last[1].dashStyle # ls.dashStyle
            THEN <<Op("SetLineDashPattern", <<phase>> \o arr)>> ELSE <<>>)

\* applyLineStyle: the operators for the fields that differ from the style
\* applied last (last is <<>> when none was); the dash operator's operands
\* are written phase first, then the array
applyLineStyleOps(ls, last) ==
  LET none == last = <<>>
      arr == MulSeq(DashArray(ls.dashStyle), ls.width)
      phase == DashPhase(ls.dashStyle) * (IF Len(arr) > 0 THEN ls.width ELSE 0)
  IN  (IF none \/ last[1].width # ls.width
         THEN <<Op("SetLineWidth", <<ls.width>>)>> ELSE <<>>)
      \o (IF none \/ last[1].capStyle # ls.capStyle
            THEN <<Op("SetLineCapStyle", <<ls.capStyle>>)>> ELSE <<>>)
      \o (IF none \/ last[1].joinStyle # ls.joinStyle
            THEN <<Op("SetLineJoinStyle", <<ls.joinStyle>>)>> ELSE <<>>)
      \o (IF none \/ last[1].dashStyle # ls.dashStyle \/ last[1].width # ls.width
            THEN <<Op("SetLineDashPattern", <<phase>> \o arr)>> ELSE <<>>)

-----------------------------------------------------------------------------
(* The page's operator stream *)

\* the graphics state a page starts with: line width 1 point, butt caps,
\* miter joins, no dashes
PageDefaultGs ==
  [width |-> 10, capStyle |-> 0, joinStyle |-> 0, dash |-> <<0>>]

\* the line style parameters in force after one operator
GsAfter(gs, o) ==
  CASE o.op = "SetLineWidth" -> [gs EXCEPT !.width = o.args[1]]
    [] o.op = "SetLineCapStyle" -> [gs EXCEPT !.capStyle = o.args[1]]
    [] o.op = "SetLineJoinStyle" -> [gs EXCEPT !.joinStyle = o.args[1]]
    [] o.op = "SetLineDashPattern" -> [gs EXCEPT !.dash = o.args]
    [] OTHER -> gs

\* the operators that set a line style parameter
LineStyleOperators ==
  {"SetLineWidth", "SetLineCapStyle", "SetLineJoinStyle", "SetLineDashPattern"}

RECURSIVE GsAfterEach(_, _)
GsAfterEach(gs, ops) ==
  IF ops = <<>> THEN gs ELSE GsAfterEach(GsAfter(gs, Head(ops)), Tail(ops))

\* the line style parameters in force after a run of operators: the other
\* operators leave them alone
GsAfterAll(gs, ops) ==
  GsAfterEach(gs, SelectSeq(ops, LAMBDA o : o.op \in LineStyleOperators))

Throw(s, e) == IF s.err # "none" THEN s ELSE [s EXCEPT !.err = e]

\* a variant that lets every call through
ensurePageExists_NoCheck(s) == s

\* EasyPdfInternal.ensurePageExists
ensurePageExists(s) ==
  IF s.err # "none" THEN s
  ELSE IF s.pdfPage = 0 THEN Throw(s, "NoPage") ELSE s

\* pdfPage.pushOperators(...ops): append to the current page's stream
pushOperators(s, ops) ==
  LET s1 == ensurePageExists(s)
  IN  IF s1.err # "none" THEN s1
      ELSE [s1 EXCEPT !.out = @ \o ops, !.gs = GsAfterAll(@, ops)]

-----------------------------------------------------------------------------
(* PathState *)

\* the LineStyle object the surface's lineStyle getter returns
CurrentLineStyle(s) == s.styles[s.lineStyle]

\* EasyPdfInternal.setLineStyle
setLineStyle(s) ==
  LET s1 == ensurePageExists(s)
      s2 == pushOperators(s1, applyLineStyleOps(CurrentLineStyle(s1), s1.lastSetLineStyle))
  IN  IF s2.err # "none" THEN s2
      ELSE [s2 EXCEPT !.lastSetLineStyle = <<cloneLineStyle(CurrentLineStyle(s2))>>]

SegmentOp(seg) ==
  CASE seg.type = "line" -> Op("LineTo", seg.pts)
    [] seg.type = "quadratic" -> Op("AppendQuadraticCurve", seg.pts)
    [] seg.type = "bezier" -> Op("AppendBezierCurve", seg.pts)
    [] seg.type = "rectangle" -> Op("AppendRectangle", seg.pts)

\* PathState.generatePathOperators: the operators (the segments are cleared
\* by the callers below, which is where the code clears them)
generatePathOperators(s) ==
  <<Op("MoveTo", <<s.start.x, s.start.y>>)>>
    \o [i \in 1..Len(s.segments) |-> SegmentOp(s.segments[i])]

\* PathState.drawLine
drawLine(s) ==
  IF s.err # "none" THEN s
  ELSE IF Len(s.segments) = 0 THEN s
  ELSE pushOperators([s EXCEPT !.segments = <<>>],
                     generatePathOperators(s) \o <<Op("StrokePath", <<>>)>>)

\* the comparison of PathState.checkLineStyleChanged: dash styles by reference
lineStyleChanged(a, b) ==
  \/ a.width # b.width
  \/ a.capStyle # b.capStyle
  \/ a.joinStyle # b.joinStyle
  \/ a.dashStyle # b.dashStyle

\* the three statements that open a path at the cursor
OpenPath(s) ==
  IF s.err # "none" THEN s
  ELSE setLineStyle([s EXCEPT !.start = s.positionInternal,
                              !.startLineStyle = cloneLineStyle(CurrentLineStyle(s))])

\* a variant that applies the new style before it draws the pending path
checkLineStyleChanged_StyleFirst(s) ==
  IF s.err # "none" THEN s
  ELSE IF Len(s.segments) > 0
    THEN IF lineStyleChanged(s.startLineStyle, CurrentLineStyle(s))
           THEN LET s1 == drawLine(setLineStyle(s))
                IN  IF s1.err # "none" THEN s1
                    ELSE [s1 EXCEPT !.start = s.positionInternal,
                                    !.startLineStyle = cloneLineStyle(CurrentLineStyle(s))]
           ELSE s
    ELSE OpenPath(s)

\* PathState.checkLineStyleChanged
checkLineStyleChanged(s) ==
  IF s.err # "none" THEN s
  ELSE IF Len(s.segments) > 0
    THEN IF lineStyleChanged(s.startLineStyle, CurrentLineStyle(s))
           THEN OpenPath(drawLine(s))
           ELSE s
    ELSE OpenPath(s)

\* the terminal operator drawPolygon chooses, <<>> when it pushes nothing
PolygonTerminal(border, fill, eoFill) ==
  IF border
    THEN IF eoFill THEN <<Op("CloseFillEvenOddAndStroke", <<>>)>>
         ELSE IF fill THEN <<Op("CloseFillNonZeroAndStroke", <<>>)>>
         ELSE <<Op("CloseAndStroke", <<>>)>>
    ELSE IF eoFill THEN <<Op("FillEvenOdd", <<>>)>>
         ELSE IF fill THEN <<Op("FillNonZero", <<>>)>>
         ELSE <<>>

\* PathState.drawPolygon
drawPolygon(s, border, fill, eoFill) ==
  IF s.err # "none" THEN s
  ELSE IF Len(s.segments) = 0 THEN s
  ELSE LET s1 == checkLineStyleChanged(s)
           pathOperators == generatePathOperators(s1)
           s2 == [s1 EXCEPT !.segments = <<>>]
           term == PolygonTerminal(border, fill, eoFill)
           s3 == IF term = <<>> THEN s2 ELSE pushOperators(s2, pathOperators \o term)
       IN  IF s3.err # "none" THEN s3
           ELSE [s3 EXCEPT !.positionInternal = s3.start]

\* PathState.lineTo, quadraticCurveTo, bezierCurveTo, rectangle
appendSegment(s, type, pts) ==
  LET s1 == checkLineStyleChanged(s)
  IN  IF s1.err # "none" THEN s1
      ELSE [s1 EXCEPT !.segments = Append(@, [type |-> type, pts |-> pts])]

-----------------------------------------------------------------------------
(* EasyPdfInternal *)

\* LineStyle objects: 1 is the one the constructor makes, 2 another one the
\* caller holds, 0 and 3 the clones saveState() makes
UserLineStyles == {1, 2}
LineStyleObjects == {0, 1, 2, 3}

\* Font objects: 1 is the surface's default font, 2 another one of the caller
FontObjects == {1, 2}

\* new Font(familyName, size): embedded is derived from the family name by
\* the familyName setter, the other fields have their declared defaults
StandardFamilies == {"Times", "Helvetica", "Courier", "Symbol", "ZapfDingbats"}

NewFont(familyName, size) ==
  [familyName |-> familyName,
   embedded |-> familyName \notin StandardFamilies,
   size |-> size,
   bold |-> FALSE,
   italic |-> FALSE,
   justify |-> FALSE,
   hangingIndent |-> 0,
   paragraphSpacing |-> 0,
   characterSpacing |-> 0]

\* new Font(StandardFonts.Helvetica, 12)
DefaultFont == NewFont("Helvetica", 12)

Point(x, y) == [x |-> x, y |-> y]

\* the object after the constructor
NewEasyPdf ==
  [pdfPage |-> 0,
   scaleMode |-> "Points",
   lineStyle |-> 1,
   styles |-> [i \in LineStyleObjects |-> DefaultLineStyle],
   lastSetLineStyle |-> <<>>,
   foreColor |-> 0,
   fillColor |-> 0,
   pictureAlignment |-> "LeftTop",
   font |-> 1,
   fonts |-> [i \in FontObjects |-> DefaultFont],
   textAlignment |-> "LeftTop",
   docFonts |-> {},
   fontKeys |-> {},
   pageFonts |-> {},
   lines |-> <<>>,
   symbol |-> <<>>,
   pageSizeInternal |-> [width |-> 0, height |-> 0],
   marginsInternal |-> [left |-> 0, top |-> 0, right |-> 0, bottom |-> 0],
   positionInternal |-> Point(0, 0),
   start |-> Point(0, 0),
   startLineStyle |-> DefaultLineStyle,
   segments |-> <<>>,
   out |-> <<>>,
   err |-> "none",
   gs |-> PageDefaultGs,
   ctm |-> Point(0, 0)]

\* toPoints with its check: the record with err set when a value is not finite
checkFinite(s, values) ==
  IF \E i \in 1..Len(values) : ~IsFinite(values[i]) THEN Throw(s, "NotFinite") ELSE s

\* EasyPdfInternal.finishLine
finishLine(s) == setLineStyle(drawLine(ensurePageExists(s)))

\* a variant that applies no line style
finishPolygon_DrawOnly(s, border, fill, eoFill) ==
  drawPolygon(ensurePageExists(s), border, fill, eoFill)

\* EasyPdfInternal.finishPolygon
finishPolygon(s, border, fill, eoFill) ==
  setLineStyle(drawPolygon(ensurePageExists(s), border, fill, eoFill))

\* the position setter
setPosition(s, x, y) ==
  LET s1 == checkFinite(ensurePageExists(s), <<x, y>>)
  IN  IF s1.err # "none" THEN s1
      ELSE [s1 EXCEPT !.positionInternal = Point(toPoints(s1.scaleMode, x), toPoints(s1.scaleMode, y))]

\* the x setter
setX(s, x) ==
  LET s1 == checkFinite(ensurePageExists(s), <<x>>)
  IN  IF s1.err # "none" THEN s1
      ELSE [s1 EXCEPT !.positionInternal = Point(toPoints(s1.scaleMode, x), @.y)]

\* the y setter
setY(s, y) ==
  LET s1 == checkFinite(ensurePageExists(s), <<y>>)
  IN  IF s1.err # "none" THEN s1
      ELSE [s1 EXCEPT !.positionInternal = Point(@.x, toPoints(s1.scaleMode, y))]

\* EasyPdfInternal.moveTo
moveTo(s, x, y) ==
  LET s1 == checkFinite(finishLine(s), <<x, y>>)
  IN  IF s1.err # "none" THEN s1
      ELSE [s1 EXCEPT !.positionInternal = Point(toPoints(s1.scaleMode, x), toPoints(s1.scaleMode, y))]

\* EasyPdfInternal.offsetTo
offsetTo(s, x, y) ==
  LET s1 == checkFinite(finishLine(s), <<x, y>>)
  IN  IF s1.err # "none" THEN s1
      ELSE [s1 EXCEPT !.positionInternal =
              Point(@.x + toPoints(s1.scaleMode, x), @.y + toPoints(s1.scaleMode, y))]

\* EasyPdfInternal.lineTo
lineTo(s, x, y) ==
  LET s1 == checkFinite(ensurePageExists(s), <<x, y>>)
      end == Point(toPoints(s1.scaleMode, x), toPoints(s1.scaleMode, y))
      s2 == appendSegment(s1, "line", <<end.x, end.y>>)
  IN  IF s2.err # "none" THEN s2 ELSE [s2 EXCEPT !.positionInternal = end]

\* EasyPdfInternal.quadraticCurveTo
quadraticCurveTo(s, cx, cy, x, y) ==
  LET s1 == checkFinite(ensurePageExists(s), <<x, y, cx, cy>>)
      m == s1.scaleMode
      end == Point(toPoints(m, x), toPoints(m, y))
      s2 == appendSegment(s1, "quadratic", <<toPoints(m, cx), toPoints(m, cy), end.x, end.y>>)
  IN  IF s2.err # "none" THEN s2 ELSE [s2 EXCEPT !.positionInternal = end]

\* EasyPdfInternal.bezierCurveTo
bezierCurveTo(s, c1x, c1y, c2x, c2y, x, y) ==
  LET s1 == checkFinite(ensurePageExists(s), <<x, y, c1x, c1y, c2x, c2y>>)
      m == s1.scaleMode
      end == Point(toPoints(m, x), toPoints(m, y))
      s2 == appendSegment(s1, "bezier",
              <<toPoints(m, c1x), toPoints(m, c1y), toPoints(m, c2x), toPoints(m, c2y), end.x, end.y>>)
  IN  IF s2.err # "none" THEN s2 ELSE [s2 EXCEPT !.positionInternal = end]

\* EasyPdfInternal.rectangleInternal
rectangleInternal(s, width, height) ==
  LET s1 == checkFinite(ensurePageExists(s), <<width, height>>)
  IN  IF s1.err # "none" THEN s1
      ELSE appendSegment(s1, "rectangle",
             <<s1.positionInternal.x, s1.positionInternal.y,
               toPoints(s1.scaleMode, width), toPoints(s1.scaleMode, height)>>)

\* drawRectangle with borderRadius 0 and no inset
drawRectangle(s, width, height, border, fill) ==
  LET s1 == finishLine(s)
  IN  IF s1.err # "none" \/ ~(border \/ fill) THEN s1
      ELSE finishPolygon(rectangleInternal(s1, width, height), border, fill, FALSE)

\* EasyPdfInternal.rectangle
rectangle(s, width, height, border, fill) ==
  drawRectangle(ensurePageExists(s), width, height, border, fill)

\* the foreColor setter
setForeColor(s, value) ==
  LET s1 == pushOperators(finishLine(s), <<Op("StrokingColor", <<value>>)>>)
  IN  IF s1.err # "none" THEN s1 ELSE [s1 EXCEPT !.foreColor = value]

\* the fillColor setter
setFillColor(s, value) ==
  LET s1 == pushOperators(finishLine(s), <<Op("NonStrokingColor", <<value>>)>>)
  IN  IF s1.err # "none" THEN s1 ELSE [s1 EXCEPT !.fillColor = value]

\* the margins getter
getMargins(s) ==
  [left |-> fromPoints(s.scaleMode, s.marginsInternal.left),
   top |-> fromPoints(s.scaleMode, s.marginsInternal.top),
   right |-> fromPoints(s.scaleMode, s.marginsInternal.right),
   bottom |-> fromPoints(s.scaleMode, s.marginsInternal.bottom)]

\* the position getter
getPosition(s) ==
  Point(fromPoints(s.scaleMode, s.positionInternal.x), fromPoints(s.scaleMode, s.positionInternal.y))

\* the translation a concatTransformationMatrix(1, 0, 0, 1, dx, dy) adds to
\* the page's matrix, the y axis being flipped since newPage
translate(s, dx, dy) ==
  LET s1 == pushOperators(s, <<Op("ConcatTransformationMatrix", <<1, 0, 0, 1, dx, dy>>)>>)
  IN  IF s1.err # "none" THEN s1 ELSE [s1 EXCEPT !.ctm = Point(@.x + dx, @.y + dy)]

\* the margins setter: left and top are converted and the matrix is pushed
\* before right and bottom are converted
setMargins(s, value) ==
  LET s1 == checkFinite(finishLine(s), <<value.left, value.top>>)
      m == s1.scaleMode
      left == toPoints(m, value.left)
      top == toPoints(m, value.top)
      dl == left - s1.marginsInternal.left
      dt == top - s1.marginsInternal.top
      s2 == IF s1.err # "none" THEN s1
            ELSE IF dl # 0 \/ dt # 0 THEN translate(s1, dl, dt) ELSE s1
      s3 == checkFinite(s2, <<value.right, value.bottom>>)
  IN  IF s3.err # "none" THEN s3
      ELSE [s3 EXCEPT !.marginsInternal =
              [left |-> left, top |-> top,
               right |-> toPoints(m, value.right), bottom |-> toPoints(m, value.bottom)]]

\* EasyPdfInternal.offsetMargins
offsetMargins(s, left, top, right, bottom) ==
  LET s1 == ensurePageExists(s)
      cur == getMargins(s1)
  IN  IF s1.err # "none" THEN s1
      ELSE setMargins(s1, [left |-> Add(cur.left, left), top |-> Add(cur.top, top),
                           right |-> Add(cur.right, right), bottom |-> Add(cur.bottom, bottom)])

\* EasyPdfInternal.newPage, rightMargin and bottomMargin left to their defaults
newPage(s, width, height, landscape, leftMargin, topMargin) ==
  LET s1 == IF s.pdfPage # 0 THEN finishLine(s) ELSE s
      s2 == checkFinite(s1, <<width, height, leftMargin, topMargin>>)
      m == s2.scaleMode
      margins == [left |-> toPoints(m, leftMargin), right |-> toPoints(m, leftMargin),
                  top |-> toPoints(m, topMargin), bottom |-> toPoints(m, topMargin)]
      pageWidth == IF landscape THEN toPoints(m, height) ELSE toPoints(m, width)
      pageHeight == IF landscape THEN toPoints(m, width) ELSE toPoints(m, height)
      s3 == [s2 EXCEPT !.pdfPage = @ + 1, !.marginsInternal = margins, !.gs = PageDefaultGs,
                       !.pageFonts = {}]
      s4 == pushOperators(s3, <<Op("ConcatTransformationMatrix",
                                   <<1, 0, 0, -1, margins.left, pageHeight - margins.top>>)>>)
  IN  IF s2.err # "none" THEN s2
      ELSE [s4 EXCEPT !.ctm = Point(margins.left, margins.top),
                      !.pageSizeInternal = [width |-> pageWidth, height |-> pageHeight],
                      !.positionInternal = Point(0, 0)]

\* the scaleMode setter
setScaleMode(s, mode) ==
  IF mode \notin ScaleModes THEN Throw(s, "InvalidScaleMode") ELSE [s EXCEPT !.scaleMode = mode]

\* the lineStyle setter of the surface: the reference is stored as it is
assignLineStyle(s, id) == IF s.err # "none" THEN s ELSE [s EXCEPT !.lineStyle = id]

\* new LineStyle(...) : the constructor stores its arguments
constructLineStyle(s, id, width, capStyle, joinStyle, dashStyle) ==
  [s EXCEPT !.styles[id] = NewLineStyle(width, capStyle, joinStyle, dashStyle)]

\* LineStyle's width setter, on the surface's current object
setWidth(s, value) ==
  IF value < 0 THEN Throw(s, "NegativeWidth") ELSE [s EXCEPT !.styles[s.lineStyle].width = value]

\* LineStyle's capStyle setter
setCapStyle(s, value) ==
  IF value \notin LineCapStyles THEN Throw(s, "InvalidLineCapStyle")
  ELSE [s EXCEPT !.styles[s.lineStyle].capStyle = value]

\* LineStyle's joinStyle setter
setJoinStyle(s, value) ==
  IF value \notin LineJoinStyles THEN Throw(s, "InvalidLineJoinStyle")
  ELSE [s EXCEPT !.styles[s.lineStyle].joinStyle = value]

\* LineStyle's dashStyle setter
setDashStyle(s, value) ==
  IF value = "null" THEN Throw(s, "NullDashStyle")
  ELSE [s EXCEPT !.styles[s.lineStyle].dashStyle = value]

\* the font setter of the surface
assignFont(s, id) == IF s.err # "none" THEN s ELSE [s EXCEPT !.font = id]

\* font.size = value, on the surface's current Font object
setFontSize(s, value) == [s EXCEPT !.fonts[s.font].size = value]

\* Font's familyName setter: a built-in family is not embedded, any other is
setFamilyName(s, value) ==
  [s EXCEPT !.fonts[s.font].familyName = value,
            !.fonts[s.font].embedded = value \notin StandardFamilies]

\* the textAlignment setter
setTextAlignment(s, value) == IF s.err # "none" THEN s ELSE [s EXCEPT !.textAlignment = value]

\* the pictureAlignment setter
setPictureAlignment(s, value) == IF s.err # "none" THEN s ELSE [s EXCEPT !.pictureAlignment = value]

\* write and writeLine: the pending path is finished, the text is shown and
\* the cursor ends where the text layout puts it (x, y in points)
write(s, x, y) ==
  LET s1 == pushOperators(finishLine(s), <<Op("ShowText", <<>>)>>)
  IN  IF s1.err # "none" THEN s1 ELSE [s1 EXCEPT !.positionInternal = Point(x, y)]

\* textWidth, textHeight, textCapHeight, textAscent, textDescent, textLeading,
\* textParagraphLeading: they return a number and change nothing of the
\* surface (what textWidth does to the document's fonts is in textWidth)
textMeasure(s) == ensurePageExists(s)

\* EasyPdfInternal.save
save(s) == ensurePageExists(s)

\* EasyPdfInternal.paintPicture: dpi, then options.width, are validated after
\* the pending path is finished
paintPicture(s, dpi, width) ==
  LET s1 == finishLine(s)
      s2 == IF s1.err = "none" /\ ~IsFinite(dpi) THEN Throw(s1, "NotFinite") ELSE s1
  IN  pushOperators(checkFinite(s2, <<width>>), <<Op("DrawObject", <<>>)>>)

\* EasyPdfInternal.barcode: the pattern's characters are validated before
\* anything else, its length inside drawBarcode
barcode(s, pattern) ==
  IF pattern = "invalid" THEN Throw(s, "InvalidPattern")
  ELSE LET s1 == finishLine(s)
           s2 == IF s1.err = "none" /\ pattern = "empty" THEN Throw(s1, "EmptyPattern") ELSE s1
       IN  pushOperators(s2, <<Op("Barcode", <<>>)>>)

\* EasyPdfInternal.qrCode: the matrix is validated inside drawQRCode
qrCode(s, matrix) ==
  LET s1 == finishLine(s)
      s2 == IF s1.err = "none" /\ matrix = "invalid" THEN Throw(s1, "InvalidMatrix") ELSE s1
  IN  pushOperators(s2, <<Op("QRCode", <<>>)>>)

\* the clone saveState() makes is a new object: the clone slot not in use
CloneSlot(s) == IF s.lineStyle = 0 THEN 3 ELSE 0

\* what the caller can read of the drawing state, objects by their contents
DrawingState(s) ==
  [scaleMode |-> s.scaleMode,
   position |-> s.positionInternal,
   foreColor |-> s.foreColor,
   fillColor |-> s.fillColor,
   lineStyle |-> CurrentLineStyle(s),
   margins |-> s.marginsInternal,
   textAlignment |-> s.textAlignment,
   pictureAlignment |-> s.pictureAlignment,
   font |-> s.fonts[s.font]]

\* saveState, the surface after it: the line style is cloned into a new object
saveState(s) ==
  LET s1 == finishLine(s)
      c == CloneSlot(s1)
  IN  IF s1.err # "none" THEN s1
      ELSE [s1 EXCEPT !.styles =
              [i \in LineStyleObjects |->
                 IF i = c THEN cloneLineStyle(CurrentLineStyle(s1))
                 ELSE IF i \in {0, 3} /\ i # s1.lineStyle THEN DefaultLineStyle
                 ELSE s1.styles[i]]]

\* saveState, the closure it returns: values, the clone, and the Font object
\* itself; atSave is the drawing state at that moment, for the comparison
savedState(s) ==
  LET s1 == finishLine(s)
  IN  [scaleMode |-> s1.scaleMode,
       position |-> getPosition(s1),
       foreColor |-> s1.foreColor,
       fillColor |-> s1.fillColor,
       lineStyle |-> CloneSlot(s1),
       margins |-> getMargins(s1),
       textAlignment |-> s1.textAlignment,
       pictureAlignment |-> s1.pictureAlignment,
       font |-> s1.font,
       atSave |-> DrawingState(s1)]

\* the closure saveState() returned, called; the clone the surface held before
\* is no longer referenced and its slot is cleared
restoreState(s, r) ==
  LET s1 == setScaleMode(s, r.scaleMode)
      s2 == IF s1.err # "none" THEN s1 ELSE setPosition(s1, r.position.x, r.position.y)
      s3 == IF s2.err # "none" THEN s2 ELSE setForeColor(s2, r.foreColor)
      s4 == IF s3.err # "none" THEN s3 ELSE setFillColor(s3, r.fillColor)
      s5 == IF s4.err # "none" THEN s4
            ELSE [assignLineStyle(s4, r.lineStyle) EXCEPT
                    !.styles[IF r.lineStyle = 0 THEN 3 ELSE 0] = DefaultLineStyle]
      s6 == IF s5.err # "none" THEN s5 ELSE setMargins(s5, r.margins)
      s7 == setTextAlignment(s6, r.textAlignment)
      s8 == setPictureAlignment(s7, r.pictureAlignment)
  IN  assignFont(s8, r.font)

-----------------------------------------------------------------------------
(* Text layout: getFont, the text measures, writeLines, writeWrapped,      *)
(* writeLineInternal and drawTextRaw.  A text is a sequence of characters. *)
(* Not modelled: stretchX, stretchY and lineSpacing (all 1), underline and *)
(* strikeout, the page's font dictionary.                                  *)

\* text.split(/\r\n|\r|\n/); piece is the line being read
RECURSIVE splitLines(_, _)
splitLines(text, piece) ==
  IF text = <<>> THEN <<piece>>
  ELSE IF Head(text) = "\r" /\ Len(text) > 1 /\ text[2] = "\n"
         THEN <<piece>> \o splitLines(Tail(Tail(text)), <<>>)
  ELSE IF Head(text) \in {"\r", "\n"} THEN <<piece>> \o splitLines(Tail(text), <<>>)
  ELSE splitLines(Tail(text), Append(piece, Head(text)))

\* text.split(" "); piece is the word being read
RECURSIVE splitWords(_, _)
splitWords(text, piece) ==
  IF text = <<>> THEN <<piece>>
  ELSE IF Head(text) = " " THEN <<piece>> \o splitWords(Tail(text), <<>>)
  ELSE splitWords(Tail(text), Append(piece, Head(text)))

\* words.join(" ")
RECURSIVE join(_)
join(words) ==
  IF Len(words) = 0 THEN <<>>
  ELSE IF Len(words) = 1 THEN words[1]
  ELSE words[1] \o <<" ">> \o join(Tail(words))

\* the advance width of a glyph in the font programs, in thousandths of the
\* em: a wide letter, and narrow ones
GlyphWidth(c) == IF c = "a" THEN 1000 ELSE 500

\* the kerning the font programs give a pair of neighbours, in thousandths:
\* two of the standard families and the custom font Tight pull a space
\* towards the letter before it, the custom font Loose pushes it away
Kerning(familyName, left, right) ==
  CASE familyName \in {"Times", "Tight"} /\ left = "a" /\ right = " " -> -250
    [] familyName \in {"Courier", "Loose"} /\ left = "a" /\ right = " " -> 250
    [] OTHER -> 0

\* what the layout of a text advances, in thousandths: every glyph's width
\* with the kerning against its right neighbour
\* (StandardFontEmbedder.widthOfTextAtSize, calculateKernedTextWidth)
RECURSIVE calculateKernedTextWidth(_, _)
calculateKernedTextWidth(familyName, text) ==
  IF text = <<>> THEN 0
  ELSE GlyphWidth(Head(text))
       + (IF Len(text) > 1 THEN Kerning(familyName, text[1], text[2]) ELSE 0)
       + calculateKernedTextWidth(familyName, Tail(text))

\* the Font object the surface's font getter returns
CurrentFont(s) == s.fonts[s.font]

\* the font program getFont picks for a standard family
FullFontName(familyName, bold, italic) ==
  CASE familyName = "Courier" ->
         (IF bold /\ italic THEN "Courier-BoldOblique" ELSE IF bold THEN "Courier-Bold"
          ELSE IF italic THEN "Courier-Oblique" ELSE "Courier")
    [] familyName = "Helvetica" ->
         (IF bold /\ italic THEN "Helvetica-BoldOblique" ELSE IF bold THEN "Helvetica-Bold"
          ELSE IF italic THEN "Helvetica-Oblique" ELSE "Helvetica")
    [] familyName = "Times" ->
         (IF bold /\ italic THEN "Times-BoldItalic" ELSE IF bold THEN "Times-Bold"
          ELSE IF italic THEN "Times-Italic" ELSE "Times-Roman")
    [] OTHER -> familyName

\* getFont: the font of the document, whether bold and italic are left to be
\* simulated, and the document's fonts after the call (a standard font that
\* is not in the document yet is embedded)
getFont(s) ==
  LET font == CurrentFont(s)
      hasVariants == font.familyName \in {"Courier", "Helvetica", "Times"}
      fullFontName == FullFontName(font.familyName, font.bold, font.italic)
  IN  IF ~font.embedded
        THEN IF fullFontName \in s.docFonts
               THEN [err |-> "none", font |-> fullFontName, bold |-> FALSE, italic |-> FALSE,
                     docFonts |-> s.docFonts]
               ELSE [err |-> "none", font |-> fullFontName,
                     bold |-> ~hasVariants /\ font.bold, italic |-> ~hasVariants /\ font.italic,
                     docFonts |-> s.docFonts \cup {fullFontName}]
        ELSE IF font.familyName \in s.docFonts
               THEN [err |-> "none", font |-> font.familyName, bold |-> font.bold,
                     italic |-> font.italic, docFonts |-> s.docFonts]
               ELSE [err |-> "FontNotFound", font |-> "", bold |-> FALSE, italic |-> FALSE,
                     docFonts |-> s.docFonts]

\* the surface after a call of getFont
withFont(s) ==
  IF s.err # "none" THEN s
  ELSE IF getFont(s).err # "none" THEN Throw(s, getFont(s).err)
  ELSE [s EXCEPT !.docFonts = getFont(s).docFonts]

\* pdfDocument.embedFont(data, { customName }) of the caller
embedFont(s, customName) == [s EXCEPT !.docFonts = @ \cup {customName}]

\* getTextWidth: the number it returns (it calls getFont as well)
getTextWidth(s, text) ==
  LET font == CurrentFont(s)
  IN  IF Len(text) = 0 THEN 0
      ELSE fromPoints(s.scaleMode,
                      (calculateKernedTextWidth(font.familyName, text) * font.size) \div 1000
                      + Len(text) * font.characterSpacing)

\* getFontDimensions: ascender 750 and descender -250 thousandths
getFontDimensions(size) ==
  [ascent |-> (750 * size) \div 1000,
   descent |-> 0 - (250 * size) \div 1000,
   height |-> (750 * size) \div 1000 + (250 * size) \div 1000]

\* getTextHeight: the number it returns (it calls getFont as well)
getTextHeight(s) == fromPoints(s.scaleMode, getFontDimensions(CurrentFont(s).size).height)

\* getTextAscent
getTextAscent(s) == fromPoints(s.scaleMode, getFontDimensions(CurrentFont(s).size).ascent)

\* getTextParagraphLeading
getTextParagraphLeading(s) == fromPoints(s.scaleMode, CurrentFont(s).paragraphSpacing)

\* getPdfNameOfFont: the key the document keeps for the font; a font without
\* one gets a key in the font resources of the current page.  A font's key is
\* written as the font's name; fontKeys are the fonts that have a key,
\* pageFonts the keys in the current page's font resources.
getPdfNameOfFont(s, fontName) ==
  IF s.err # "none" \/ fontName \in s.fontKeys THEN s
  ELSE [s EXCEPT !.fontKeys = @ \cup {fontName}, !.pageFonts = @ \cup {fontName}]

\* drawTextRaw: the operators of one run of text.  The text starts at
\* x + k * wordSpacing; bold is simulated by filling and stroking the
\* glyphs, italic by a skewed text matrix.  SetTextStroke stands for the
\* stroking colour, width, cap, join and dash a simulated bold sets.
drawTextRaw(s, text, x, k, y, fontName, fontSize, wordSpacing, characterSpacing, bold, italic) ==
  IF Len(text) = 0 THEN s
  ELSE pushOperators(getPdfNameOfFont(s, fontName),
         <<Op("PushGraphicsState", <<>>),
           Op("SetCharacterSpacing", <<characterSpacing>>),
           Op("SetWordSpacing", <<wordSpacing>>),
           Op("BeginText", <<>>),
           Op("SetFontAndSize", <<fontName, fontSize>>),
           Op("SetTextColor", <<s.foreColor>>),
           Op("SetTextMatrix", <<italic, x, k, y>>)>>
         \o (IF bold THEN <<Op("SetTextRenderingMode", <<"FillAndOutline">>),
                            Op("SetTextStroke", <<fontSize>>)>>
             ELSE <<>>)
         \o <<Op("ShowTextAdjusted", <<text>>), Op("EndText", <<>>),
              Op("PopGraphicsState", <<>>)>>)

\* the loop of drawTextWithWordSpacing over the words of a custom font's
\* justified line: the i-th word starts after the words and spaces before it
\* and i - 1 word spacings
RECURSIVE drawWords(_, _, _, _, _, _, _, _)
drawWords(s, words, x, k, y, fontInfo, wordSpacing, font) ==
  IF words = <<>> THEN s
  ELSE LET word == Head(words)
           wordWidth == (calculateKernedTextWidth(font.familyName, word \o <<" ">>) * font.size) \div 1000
                        + (Len(word) + 1) * font.characterSpacing
           s1 == drawTextRaw(s, word, x, k, y, fontInfo.font, font.size, Quotient(0, 1),
                             font.characterSpacing, fontInfo.bold, fontInfo.italic)
       IN  drawWords(s1, Tail(words), x + wordWidth, k + 1, y, fontInfo, wordSpacing, font)

\* drawTextWithWordSpacing
drawTextWithWordSpacing(s, text, x, y, fontInfo, wordSpacing) ==
  LET font == CurrentFont(s)
  IN  IF Len(text) = 0 THEN s
      ELSE IF ~font.embedded \/ wordSpacing.num = 0 \/ Len(splitWords(text, <<>>)) = 1
        THEN drawTextRaw(s, text, x, 0, y, fontInfo.font, font.size, wordSpacing,
                         font.characterSpacing, fontInfo.bold, fontInfo.italic)
      ELSE drawWords(s, splitWords(text, <<>>), x, 0, y, fontInfo, wordSpacing, font)

LeftAlignments == {"LeftBaseline", "LeftTop", "LeftBottom", "LeftCenter"}
CenterAlignments == {"CenterBaseline", "CenterTop", "CenterBottom", "CenterCenter"}
RightAlignments == {"RightBaseline", "RightTop", "RightBottom", "RightCenter"}
TopAlignments == {"LeftTop", "CenterTop", "RightTop"}
BottomAlignments == {"LeftBottom", "CenterBottom", "RightBottom"}

\* what writeLineInternal decided for a line
LineWritten(s, fontInfo, text, newLine, indent, justifyWidth, width, wordSpacing) ==
  [text |-> text, newLine |-> newLine, indent |-> indent, justifyWidth |-> justifyWidth,
   width |-> width, wordSpacing |-> wordSpacing, font |-> fontInfo.font,
   bold |-> fontInfo.bold, italic |-> fontInfo.italic, at |-> s.positionInternal]

\* the line kept in lines, unless an error was thrown
logLine(s, line) ==
  IF s.err # "none" THEN s ELSE [s EXCEPT !.lines = Append(@, line)]

\* the end of writeLineInternal, after the text is drawn: down by the text
\* height for a new line, else to the end of the text
endOfLine(s, line, newLine, endX) ==
  IF newLine THEN offsetTo(logLine(s, line), 0, getTextHeight(s))
  ELSE moveTo(logLine(s, line), endX, getPosition(s).y)

\* writeLineInternal's text drawn at x and y, and the end of the line
drawLineAt(s, fontInfo, line, x, y) ==
  endOfLine(drawTextWithWordSpacing(
              s, line.text, toPoints(s.scaleMode, x), toPoints(s.scaleMode, y), fontInfo,
              Quotient(toPoints(s.scaleMode, line.wordSpacing.num), line.wordSpacing.den)),
            line, line.newLine, x + line.width)

\* writeLineInternal's placement of a line of a width
alignLine(s, fontInfo, line) ==
  LET font == CurrentFont(s)
  IN  drawLineAt(s, fontInfo, line,
                 getPosition(s).x
                   + (CASE s.textAlignment \in LeftAlignments ->
                             (IF line.indent THEN font.hangingIndent ELSE 0)
                        [] s.textAlignment \in CenterAlignments -> 0 - line.width \div 2
                        [] OTHER -> 0 - line.width),
                 getPosition(s).y
                   + (CASE s.textAlignment \in TopAlignments -> getTextAscent(s)
                        [] s.textAlignment \in BottomAlignments ->
                             0 - (getTextHeight(s) - getTextAscent(s))
                        [] OTHER -> 0))

\* writeLineInternal's width and word spacing of a text that measures
\* natural: spread over the justify width if there is one and a space
spreadLine(s, fontInfo, text, newLine, indent, justifyWidth, natural, spaceCount) ==
  LET spread == CurrentFont(s).justify /\ justifyWidth # <<>> /\ spaceCount > 0
  IN  alignLine(s, fontInfo,
                LineWritten(s, fontInfo, text, newLine, indent, justifyWidth,
                            IF spread THEN justifyWidth[1] ELSE natural,
                            IF spread THEN Quotient(justifyWidth[1] - natural, spaceCount)
                            ELSE Quotient(0, 1)))

\* writeLineInternal of a text that is not empty, the font looked up
placeLine(s, fontInfo, text, newLine, indent, justifyWidth) ==
  IF s.err # "none" THEN s
  ELSE spreadLine(s, fontInfo, text, newLine, indent, justifyWidth,
                  IF CurrentFont(s).justify /\ justifyWidth # <<>>
                    THEN getTextWidth(s, text)
                         - fromPoints(s.scaleMode, CurrentFont(s).characterSpacing)
                    ELSE getTextWidth(s, text),
                  Len(splitWords(text, <<>>)) - 1)

\* writeLineInternal of an empty text: nothing is drawn
emptyLine(s, line) ==
  IF line.newLine THEN offsetTo(withFont(logLine(s, line)), 0, getTextHeight(s))
  ELSE logLine(s, line)

\* writeLineInternal; justifyWidth is <<>> when there is none.  What it
\* decided for the line is kept in lines: the text, the width and word
\* spacing it is drawn with, and where the cursor was.
writeLineInternal(s, fontInfo, text, newLine, indent, justifyWidth) ==
  IF s.err # "none" THEN s
  ELSE IF Len(text) = 0
    THEN emptyLine(s, LineWritten(s, fontInfo, text, newLine, indent, justifyWidth,
                                  0, Quotient(0, 1)))
  ELSE placeLine(withFont(s), fontInfo, text, newLine, indent, justifyWidth)

\* a variant that lets a word stay on the line when only its space fits
RECURSIVE wrapWords_SpaceFits(_, _, _, _, _, _, _)
wrapWords_SpaceFits(s, fontInfo, words, width, currentLine, currentLineWidth, isFirstLine) ==
  IF words = <<>> \/ s.err # "none"
    THEN [s |-> s, currentLine |-> currentLine, isFirstLine |-> isFirstLine]
  ELSE LET word == Head(words)
           flush == Len(currentLine) > 0
                    /\ getTextWidth(s, join(currentLine) \o <<" ">>)
                       - fromPoints(s.scaleMode, CurrentFont(s).characterSpacing) > width
           s1 == IF flush
                   THEN writeLineInternal(s, fontInfo, join(currentLine), TRUE, ~isFirstLine, <<width>>)
                   ELSE s
       IN  wrapWords_SpaceFits(s1, fontInfo, Tail(words), width,
                               Append(IF flush THEN <<>> ELSE currentLine, word), 0,
                               isFirstLine /\ ~flush)

\* the loop of writeWrapped over the words
RECURSIVE wrapWords(_, _, _, _, _, _, _)
wrapWords(s, fontInfo, words, width, currentLine, currentLineWidth, isFirstLine) ==
  IF words = <<>> \/ s.err # "none"
    THEN [s |-> s, currentLine |-> currentLine, isFirstLine |-> isFirstLine]
  ELSE LET font == CurrentFont(s)
           word == Head(words)
           spaceWidth == getTextWidth(s, <<" ">>)
           wordWidth == IF font.embedded THEN getTextWidth(s, word) ELSE 0
           potentialLineWidth ==
             (IF font.embedded
                THEN currentLineWidth + (IF Len(currentLine) > 0 THEN spaceWidth ELSE 0) + wordWidth
                ELSE getTextWidth(s, join(currentLine) \o <<" ">> \o word))
             - fromPoints(s.scaleMode, font.characterSpacing)
           flush == Len(currentLine) > 0 /\ potentialLineWidth > width
           s1 == IF flush
                   THEN writeLineInternal(s, fontInfo, join(currentLine), TRUE, ~isFirstLine, <<width>>)
                   ELSE s
           line == Append(IF flush THEN <<>> ELSE currentLine, word)
           lineWidth == (IF flush THEN 0 ELSE currentLineWidth)
                        + (IF Len(line) > 1 THEN spaceWidth ELSE 0) + wordWidth
       IN  wrapWords(s1, fontInfo, Tail(words), width, line, lineWidth, isFirstLine /\ ~flush)

\* offsetTo(0, font.paragraphSpacing) if the line is a new line
offsetParagraph(s, newLine) ==
  IF newLine THEN offsetTo(s, 0, CurrentFont(s).paragraphSpacing) ELSE s

\* writeWrapped's last line, of the words wrapWords is left with, and the
\* paragraph spacing
writeLastLine(r, fontInfo, newLine, justifyWidth) ==
  offsetParagraph(writeLineInternal(r.s, fontInfo, join(r.currentLine), newLine,
                                    ~r.isFirstLine, justifyWidth),
                  newLine)

\* writeWrapped of a text that is not empty, the font looked up; lastWidth
\* is the justify width of the last line, <<>> for none
wrapText(s, fontInfo, text, newLine, width, lastWidth) ==
  IF s.err # "none" THEN s
  ELSE writeLastLine(wrapWords(s, fontInfo, splitWords(text, <<>>), width, <<>>, 0, TRUE),
                     fontInfo, newLine, lastWidth)

\* a variant that hands the wrap width to the last line as well
writeWrapped_JustifyLast(s, text, newLine, width) ==
  IF s.err # "none" \/ Len(text) = 0 THEN s
  ELSE wrapText(withFont(s), getFont(s), text, newLine, width, <<width>>)

\* writeWrapped; an empty line that only moves the cursor is kept in lines too
writeWrapped(s, text, newLine, width) ==
  IF s.err # "none" THEN s
  ELSE IF Len(text) = 0
    THEN IF newLine
           THEN offsetTo(withFont(logLine(s, LineWritten(s, [font |-> "", bold |-> FALSE,
                                                             italic |-> FALSE],
                                                         <<>>, newLine, FALSE, <<>>, 0,
                                                         Quotient(0, 1)))),
                         0, getTextHeight(s) + CurrentFont(s).paragraphSpacing)
           ELSE s
  ELSE wrapText(withFont(s), getFont(s), text, newLine, width, <<>>)

\* writeLines' line without a width, the font looked up
writeUnwrapped(s, fontInfo, text, newLine) ==
  IF s.err # "none" THEN s
  ELSE offsetParagraph(writeLineInternal(s, fontInfo, text, newLine, FALSE, <<>>), newLine)

\* the fonts put back after a line written without spacing, and the
\* spacing added if the line is the last
spacedOnce(s, fonts, last) ==
  offsetParagraph([s EXCEPT !.fonts = fonts], last /\ s.err = "none")

\* a variant that adds the paragraph spacing after the last line only
RECURSIVE writeLinesLoop_SpacingOnce(_, _, _, _)
writeLinesLoop_SpacingOnce(s, lines, newLine, width) ==
  IF lines = <<>> \/ s.err # "none" THEN s
  ELSE LET thisNewLine == newLine \/ Len(lines) > 1
           unspaced == [s EXCEPT !.fonts[s.font].paragraphSpacing = 0]
       IN  writeLinesLoop_SpacingOnce(
             spacedOnce(IF width # <<>>
                          THEN writeWrapped(unspaced, Head(lines), thisNewLine, width[1])
                          ELSE writeLineInternal(withFont(s), getFont(s), Head(lines),
                                                 thisNewLine, FALSE, <<>>),
                        s.fonts, Len(lines) = 1 /\ thisNewLine),
             Tail(lines), newLine, width)

\* the loop of writeLines over the lines of the text; width is <<>> when the
\* caller gave none
RECURSIVE writeLinesLoop(_, _, _, _)
writeLinesLoop(s, lines, newLine, width) ==
  IF lines = <<>> \/ s.err # "none" THEN s
  ELSE writeLinesLoop(
         IF width # <<>> THEN writeWrapped(s, Head(lines), newLine \/ Len(lines) > 1, width[1])
         ELSE writeUnwrapped(withFont(s), getFont(s), Head(lines), newLine \/ Len(lines) > 1),
         Tail(lines), newLine, width)

\* writeLines
writeLines(s, text, newLine, width) == writeLinesLoop(s, splitLines(text, <<>>), newLine, width)

\* EasyPdfInternal.textWidth(text): getTextWidth looks the font up, and
\* embeds it, unless the text is empty
textWidth(s, text) ==
  IF Len(text) = 0 THEN ensurePageExists(s) ELSE withFont(ensurePageExists(s))

\* EasyPdfInternal.write(text, maxWidth)
writeText(s, text, maxWidth) ==
  LET s1 == finishLine(s)
  IN  IF Len(text) = 0 THEN s1 ELSE writeLines(s1, text, FALSE, maxWidth)

\* EasyPdfInternal.writeLine(text, maxWidth)
writeLine(s, text, maxWidth) == writeLines(finishLine(s), text, TRUE, maxWidth)

-----------------------------------------------------------------------------
(* Barcodes and QR codes: drawBarcode and drawQRCode.  A bar pattern is a  *)
(* sequence of booleans (TRUE is a dark bar; a string of 1 and 0 is the    *)
(* same), a QR matrix a sequence of rows of booleans.  The other two       *)
(* formats of a matrix are not modelled.  A bar or module size is a        *)
(* quotient; the symbol's corner is kept doubled, which keeps the halves   *)
(* of the alignments whole.                                                *)

\* the quiet zone of a bar pattern: 10 bars
QuietZoneBars == 10

\* the quiet zone of a QR matrix: 4 modules
quietZoneWidth == 4

\* n light bars
Light(n) == [i \in 1..n |-> FALSE]

\* the indices of 1..n that satisfy Test, in order
Indices(n, Test(_)) == SelectSeq([i \in 1..n |-> i], Test)

\* a variant that looks at the leading bars only
hasQuietZoneBars_LeadingOnly(pattern) ==
  /\ Len(pattern) >= QuietZoneBars
  /\ \A i \in 0..(QuietZoneBars - 1) : ~pattern[i + 1]

\* drawBarcode's hasQuietZone
hasQuietZoneBars(pattern) ==
  /\ Len(pattern) >= QuietZoneBars
  /\ \A i \in 0..(QuietZoneBars - 1) : ~pattern[i + 1] /\ ~pattern[Len(pattern) - i]

\* the corner of a symbol of a width and height at a position, doubled
AlignedCorner(alignment, position, width, height) ==
  Point(2 * position.x
          - (CASE alignment \in {"CenterTop", "CenterCenter", "CenterBottom"} -> width
               [] alignment \in {"RightTop", "RightCenter", "RightBottom"} -> 2 * width
               [] OTHER -> 0),
        2 * position.y
          - (CASE alignment \in {"LeftCenter", "CenterCenter", "RightCenter"} -> height
               [] alignment \in {"LeftBottom", "CenterBottom", "RightBottom"} -> 2 * height
               [] OTHER -> 0))

\* drawBarcode; options.width and options.height are <<>> when not given.
\* The bars it ends with, as drawn, are kept in symbol.
drawBarcode(s, pattern, options) ==
  IF s.err # "none" THEN s
  ELSE IF Len(pattern) = 0 THEN Throw(s, "EmptyPattern")
  ELSE LET hasQuietZone == hasQuietZoneBars(pattern)
           bars == IF hasQuietZone /\ ~options.quietZone
                     THEN SubSeq(pattern, QuietZoneBars + 1, Len(pattern) - QuietZoneBars)
                   ELSE IF ~hasQuietZone /\ options.quietZone
                     THEN Light(QuietZoneBars) \o pattern \o Light(QuietZoneBars)
                   ELSE pattern
           isDarkBar == [i \in 1..Len(bars) |-> bars[i] # options.invert]
           s1 == checkFinite(checkFinite(s, options.height), options.width)
           heightInPoints == IF options.height = <<>> THEN 36
                             ELSE toPoints(s.scaleMode, options.height[1])
           barWidth == IF options.width = <<>> THEN Quotient(3, 1)
                       ELSE Quotient(toPoints(s.scaleMode, options.width[1]), Len(bars))
           totalWidth == IF options.width = <<>> THEN 3 * Len(bars)
                         ELSE IF Len(bars) = 0 THEN NaN
                         ELSE toPoints(s.scaleMode, options.width[1])
           corner == IF IsFinite(totalWidth)
                       THEN AlignedCorner(s.pictureAlignment, s.positionInternal, totalWidth, heightInPoints)
                       ELSE Point(NaN, NaN)
           rectangles == [k \in 1..Len(Indices(Len(bars), LAMBDA i : isDarkBar[i])) |->
                            Op("Rectangle",
                               <<corner, Indices(Len(bars), LAMBDA i : isDarkBar[i])[k] - 1, 0,
                                 barWidth, heightInPoints>>)]
       IN  IF s1.err # "none" THEN s1
           ELSE [pushOperators(s1, rectangles \o <<Op("Fill", <<>>)>>) EXCEPT
                   !.symbol = <<[count |-> Len(bars), dark |-> isDarkBar]>>]

\* EasyPdfInternal.barcode with an array of booleans
barcodeBars(s, pattern, options) == drawBarcode(finishLine(s), pattern, options)

\* isDarkModule of a 2D array, rows and columns counted from 0: a module
\* outside the array is not dark
isDarkModule(matrix, row, col) ==
  /\ row + 1 \in 1..Len(matrix)
  /\ col + 1 \in 1..Len(matrix[row + 1])
  /\ matrix[row + 1][col + 1]

\* drawQRCode's hasQuietZone
hasQuietZoneModules(matrix) ==
  LET moduleCount == Len(matrix)
  IN  \A x \in 0..(moduleCount - 1), y \in 0..(quietZoneWidth - 1) :
        /\ ~isDarkModule(matrix, y, x)
        /\ ~isDarkModule(matrix, moduleCount - 1 - y, x)
        /\ ~isDarkModule(matrix, x, y)
        /\ ~isDarkModule(matrix, x, moduleCount - 1 - y)

\* drawQRCode; options.size is <<>> when not given.  The modules it ends
\* with, as drawn, are kept in symbol.  A module's rectangle is written with
\* the alignment, the position and the symbol's size its corner comes from,
\* then its column and row and the module size.
drawQRCode(s, matrix, options) ==
  IF s.err # "none" THEN s
  ELSE IF Len(matrix) = 0 THEN Throw(s, "UnrecognizedMatrix")
  ELSE LET hasQuietZone == hasQuietZoneModules(matrix)
           strip == hasQuietZone /\ ~options.quietZone
           add == ~hasQuietZone /\ options.quietZone
           moduleCount == IF strip THEN Len(matrix) - quietZoneWidth * 2
                          ELSE IF add THEN Len(matrix) + quietZoneWidth * 2
                          ELSE Len(matrix)
           shift == IF strip THEN quietZoneWidth ELSE IF add THEN 0 - quietZoneWidth ELSE 0
           dark == [row \in 1..moduleCount |-> [col \in 1..moduleCount |->
                      isDarkModule(matrix, row - 1 + shift, col - 1 + shift) # options.invert]]
           s1 == checkFinite(s, options.size)
           moduleSize == IF options.size = <<>> THEN Quotient(216, 100)
                         ELSE Quotient(toPoints(s.scaleMode, options.size[1]), moduleCount)
           sizeInPoints == IF options.size = <<>> THEN Quotient(216 * moduleCount, 100)
                           ELSE Quotient(toPoints(s.scaleMode, options.size[1]), 1)
           rowOf(n) == (n - 1) \div moduleCount
           colOf(n) == (n - 1) % moduleCount
           darkModules == IF moduleCount <= 0 THEN <<>>
                          ELSE Indices(moduleCount * moduleCount,
                                       LAMBDA n : dark[rowOf(n) + 1][colOf(n) + 1])
           rectangles == [k \in 1..Len(darkModules) |->
                            Op("Rectangle",
                               <<s.pictureAlignment, s.positionInternal, sizeInPoints,
                                 colOf(darkModules[k]), rowOf(darkModules[k]),
                                 moduleSize, moduleSize>>)]
       IN  IF strip /\ moduleCount <= 0 THEN Throw(s, "TooSmall")
           ELSE IF s1.err # "none" THEN s1
           ELSE [pushOperators(s1, rectangles \o <<Op("Fill", <<>>)>>) EXCEPT
                   !.symbol = <<[count |-> moduleCount, dark |-> dark]>>]

\* EasyPdfInternal.qrCode with a 2D array
qrCodeMatrix(s, matrix, options) == drawQRCode(finishLine(s), matrix, options)

-----------------------------------------------------------------------------
(* Code 128: createCode128, encodeWithCode and encodeWithCodeC.  A string  *)
(* is a sequence of character codes (UTF-16 code units), a bit pattern a   *)
(* string of 1 and 0.                                                      *)

\* the characters of Code 128A: space to underscore, then the control
\* characters
code128A == [i \in 1..96 |-> IF i <= 64 THEN 31 + i ELSE i - 65]

\* the characters of Code 128B: space to DEL
code128B == [i \in 1..96 |-> 31 + i]

possibleChars == code128A \o code128B

\* String.includes of a character
includes(charSet, char) == \E i \in 1..Len(charSet) : charSet[i] = char

\* String.indexOf of a character
indexOf(charSet, char) ==
  IF includes(charSet, char)
    THEN (CHOOSE i \in 1..Len(charSet) :
            charSet[i] = char /\ \A j \in 1..(i - 1) : charSet[j] # char) - 1
    ELSE -1

\* the bit patterns of the codes 0 to 106
patterns ==
  <<
     "11011001100", "11001101100", "11001100110", "10010011000", "10010001100",
     "10001001100", "10011001000", "10011000100", "10001100100", "11001001000",
     "11001000100", "11000100100", "10110011100", "10011011100", "10011001110",
     "10111001100", "10011101100", "10011100110", "11001110010", "11001011100",
     "11001001110", "11011100100", "11001110100", "11101101110", "11101001100",
     "11100101100", "11100100110", "11101100100", "11100110100", "11100110010",
     "11011011000", "11011000110", "11000110110", "10100011000", "10001011000",
     "10001000110", "10110001000", "10001101000", "10001100010", "11010001000",
     "11000101000", "11000100010", "10110111000", "10110001110", "10001101110",
     "10111011000", "10111000110", "10001110110", "11101110110", "11010001110",
     "11000101110", "11011101000", "11011100010", "11011101110", "11101011000",
     "11101000110", "11100010110", "11101101000", "11101100010", "11100011010",
     "11101111010", "11001000010", "11110001010", "10100110000", "10100001100",
     "10010110000", "10010000110", "10000101100", "10000100110", "10110010000",
     "10110000100", "10011010000", "10011000010", "10000110100", "10000110010",
     "11000010010", "11001010000", "11110111010", "11000010100", "10001111010",
     "10100111100", "10010111100", "10010011110", "10111100100", "10011110100",
     "10011110010", "11110100100", "11110010100", "11110010010", "11011011110",
     "11011110110", "11110110110", "10101111000", "10100011110", "10001011110",
     "10111101000", "10111100010", "11110101000", "11110100010", "10111011110",
     "10111101110", "11101011110", "11110101110", "11010000100", "11010010000",
     "11010011100", "1100011101011"
  >>

\* \d
IsDigit(char) == char \in 48..57

\* a variant that asks for two leading digits
startsWithDigits_Two(data) ==
  Len(data) >= 2 /\ \A i \in 1..2 : IsDigit(data[i])

\* createCode128's test for starting in code set C: four leading digits
startsWithDigits(data) ==
  Len(data) >= 4 /\ \A i \in 1..4 : IsDigit(data[i])

\* encodeWithCode from the index i (counted from 0): the codes after it
RECURSIVE encodeWithCode(_, _, _, _)
encodeWithCode(data, codes, codeSet, i) ==
  IF i >= Len(data) THEN codes
  ELSE LET charSet == IF codeSet = "A" THEN code128A ELSE code128B
           charIndex == indexOf(charSet, data[i + 1])
       IN  IF charIndex = -1
             THEN encodeWithCode(data, Append(codes, IF codeSet = "A" THEN 100 ELSE 101),
                                 IF codeSet = "A" THEN "B" ELSE "A", i)
             ELSE encodeWithCode(data, Append(codes, charIndex), codeSet, i + 1)

\* a variant that adds the two digits of a pair
RECURSIVE encodeWithCodeC_DigitSum(_, _, _)
encodeWithCodeC_DigitSum(data, codes, i) ==
  IF i < Len(data) - 1 /\ IsDigit(data[i + 1]) /\ IsDigit(data[i + 2])
    THEN encodeWithCodeC_DigitSum(data, Append(codes, (data[i + 1] - 48) + (data[i + 2] - 48)),
                                  i + 2)
  ELSE IF i < Len(data)
    THEN LET codeSet == IF includes(code128B, data[i + 1]) THEN "B" ELSE "A"
         IN  encodeWithCode(data, Append(codes, IF codeSet = "B" THEN 100 ELSE 101), codeSet, i)
  ELSE codes

\* encodeWithCodeC from the index i: pairs of digits as long as there are
\* any, the rest in code set B or A
RECURSIVE encodeWithCodeC(_, _, _)
encodeWithCodeC(data, codes, i) ==
  IF i < Len(data) - 1 /\ IsDigit(data[i + 1]) /\ IsDigit(data[i + 2])
    THEN encodeWithCodeC(data, Append(codes, 10 * (data[i + 1] - 48) + (data[i + 2] - 48)),
                         i + 2)
  ELSE IF i < Len(data)
    THEN LET codeSet == IF includes(code128B, data[i + 1]) THEN "B" ELSE "A"
         IN  encodeWithCode(data, Append(codes, IF codeSet = "B" THEN 100 ELSE 101), codeSet, i)
  ELSE codes

\* the checksum of the codes: the start code and every code times its index
RECURSIVE weightedSum(_, _)
weightedSum(codes, n) ==
  IF n = 0 THEN 0
  ELSE weightedSum(codes, n - 1) + codes[n] * (IF n = 1 THEN 1 ELSE n - 1)

\* a variant that gives the start code its index as weight
checksum_PlainIndex(codes) == (weightedSum(codes, Len(codes)) - codes[1]) % 103

checksum(codes) == weightedSum(codes, Len(codes)) % 103

\* the bit patterns of the codes, joined
RECURSIVE joinPatterns(_)
joinPatterns(codes) ==
  IF codes = <<>> THEN "" ELSE patterns[Head(codes) + 1] \o joinPatterns(Tail(codes))

\* a variant that takes the characters of Code 128B only
everyEncodable_SetBOnly(data) ==
  \A i \in 1..Len(data) : includes(code128B, data[i])

\* createCode128's test that all characters can be encoded
everyEncodable(data) ==
  \A i \in 1..Len(data) : includes(possibleChars, data[i])

\* the codes createCode128 encodes an input as: start code, data codes,
\* checksum, stop code
code128Codes(data) ==
  LET encoded == IF startsWithDigits(data) THEN encodeWithCodeC(data, <<105>>, 0)
                 ELSE LET codeSet == IF includes(code128B, data[1]) THEN "B" ELSE "A"
                      IN  encodeWithCode(data, <<IF codeSet = "B" THEN 104 ELSE 103>>,
                                         codeSet, 0)
  IN  encoded \o <<checksum(encoded), 106>>

\* createCode128: the error it throws, or the codes and the pattern
createCode128(data) ==
  IF Len(data) = 0 THEN [err |-> "Empty", codes |-> <<>>, pattern |-> ""]
  ELSE IF ~everyEncodable(data)
    THEN [err |-> "CannotBeEncoded", codes |-> <<>>, pattern |-> ""]
  ELSE [err |-> "none", codes |-> code128Codes(data),
        pattern |-> joinPatterns(code128Codes(data))]

-----------------------------------------------------------------------------
(* compressKerningPairs *)

\* a KerningPair: its code is a number (isArray FALSE, one element) or an
\* array of numbers
KerningPair(code, isArray, adjustment) ==
  [code |-> code, isArray |-> isArray, adjustment |-> adjustment]

\* a variant of the loop in which a joined entry takes the adjustment of the
\* pair joined to it
RECURSIVE compressLoop_LastAdjustment(_, _, _)
compressLoop_LastAdjustment(pairs, i, result) ==
  IF i > Len(pairs) THEN result
  ELSE LET pair == pairs[i]
           n == Len(result)
       IN  IF n = 0 THEN compressLoop_LastAdjustment(pairs, i + 1, <<pair>>)
           ELSE IF pair.adjustment = 0
           THEN compressLoop_LastAdjustment(pairs, i + 1,
                  [result EXCEPT ![n] = KerningPair(result[n].code \o pair.code, TRUE, pair.adjustment)])
           ELSE compressLoop_LastAdjustment(pairs, i + 1, Append(result, pair))

\* the loop of compressKerningPairs from index i on; currentPair is the last
\* element of result
RECURSIVE compressLoop(_, _, _)
compressLoop(pairs, i, result) ==
  IF i > Len(pairs) THEN result
  ELSE LET pair == pairs[i]
           n == Len(result)
       IN  IF n = 0 THEN compressLoop(pairs, i + 1, <<pair>>)
           ELSE IF pair.adjustment = 0
           THEN compressLoop(pairs, i + 1,
                  [result EXCEPT ![n] = KerningPair(result[n].code \o pair.code, TRUE, result[n].adjustment)])
           ELSE compressLoop(pairs, i + 1, Append(result, pair))

\* a variant that joins nothing
compressKerningPairs_NoJoin(pairs) == [same |-> Len(pairs) <= 1, pairs |-> pairs]

\* compressKerningPairs: the array it returns, and whether that is the very
\* array it was given
compressKerningPairs(pairs) ==
  IF Len(pairs) <= 1 THEN [same |-> TRUE, pairs |-> pairs]
  ELSE [same |-> FALSE, pairs |-> compressLoop(pairs, 1, <<>>)]

-----------------------------------------------------------------------------
(* The adjusted text-show *)

\* the kerning a font gives the glyph at i against its right neighbour
KerningAfter(familyName, text, i) ==
  IF i < Len(text) THEN Kerning(familyName, text[i], text[i + 1]) ELSE 0

\* StandardKerningCalculator.calculateKerningPairs: the first pair has no
\* adjustment, every other one the kerning against the glyph before it
standardCalculateKerningPairs(familyName, text) ==
  [i \in 1..Len(text) |->
     KerningPair(<<text[i]>>, FALSE,
                 IF i = 1 THEN 0 ELSE Kerning(familyName, text[i - 1], text[i]))]

\* CustomKerningCalculator.calculateKerningPairs: the layout's xAdvance of a
\* glyph is its advance width with the kerning against its right neighbour;
\* the adjustment of a pair is xAdvance - advanceWidth of its own glyph
customCalculateKerningPairs(familyName, text) ==
  [i \in 1..Len(text) |->
     LET xAdvance == GlyphWidth(text[i]) + KerningAfter(familyName, text, i)
     IN  KerningPair(<<text[i]>>, FALSE, xAdvance - GlyphWidth(text[i]))]

\* the elements of the array of the adjusted text-show: a string of glyphs
\* (the hex string of the codes), or a number
Glyphs(code) == [glyphs |-> code, number |-> 0]
Number(n) == [glyphs |-> <<>>, number |-> n]

\* the loop of calculateKerningPairs over the pairs after the first: the
\* negated adjustment, then the codes
RECURSIVE adjustedFrom(_, _)
adjustedFrom(pairs, i) ==
  IF i > Len(pairs) THEN <<>>
  ELSE <<Number(0 - pairs[i].adjustment), Glyphs(pairs[i].code)>> \o adjustedFrom(pairs, i + 1)

\* calculateKerningPairs: the array of the adjusted text-show
calculateKerningPairs(familyName, text) ==
  LET pairs == IF familyName \in StandardFamilies
                 THEN standardCalculateKerningPairs(familyName, text)
                 ELSE customCalculateKerningPairs(familyName, text)
      compressed == compressKerningPairs(pairs).pairs
  IN  IF Len(pairs) = 0 THEN <<>>
      ELSE <<Glyphs(compressed[1].code)>> \o adjustedFrom(compressed, 2)

-----------------------------------------------------------------------------
(* the state machine *)

NoCall == [name |-> "none", args |-> <<>>]

NoKern == [stage |-> 0, input |-> <<>>, result |-> <<>>, same |-> FALSE, again |-> <<>>]

\* no createCode128 call yet
NoEncoding == [stage |-> 0, data |-> <<>>, result |-> <<>>, again |-> <<>>]

Init ==
  /\ pdf = NewEasyPdf
  /\ call = NoCall
  /\ restorer = <<>>
  /\ kern = NoKern
  /\ encoding = NoEncoding

\* the surface as a call finds it: nothing pushed yet, nothing thrown
Begin == [pdf EXCEPT !.out = <<>>, !.err = "none", !.lines = <<>>, !.symbol = <<>>]

\* a call of the surface: the surface after it, and what was called
Do(name, args, s) ==
  /\ pdf' = s
  /\ call' = [name |-> name, args |-> args]
  /\ UNCHANGED <<restorer, kern, encoding>>

NewPage(width, height, landscape, leftMargin, topMargin) ==
  /\ pdf.pdfPage < MaxPages
  /\ Do("newPage", <<width, height, leftMargin, topMargin>>,
        newPage(Begin, width, height, landscape, leftMargin, topMargin))

MoveTo(x, y) == Do("moveTo", <<x, y>>, moveTo(Begin, x, y))

OffsetTo(x, y) == Do("offsetTo", <<x, y>>, offsetTo(Begin, x, y))

SetPosition(x, y) == Do("position", <<x, y>>, setPosition(Begin, x, y))

SetX(x) == Do("x", <<x>>, setX(Begin, x))

SetY(y) == Do("y", <<y>>, setY(Begin, y))

LineTo(x, y) ==
  Do("lineTo", <<x, y>>, lineTo(Begin, x, y))

QuadraticCurveTo(cx, cy, x, y) ==
  Do("quadraticCurveTo", <<cx, cy, x, y>>, quadraticCurveTo(Begin, cx, cy, x, y))

BezierCurveTo(c1x, c1y, c2x, c2y, x, y) ==
  Do("bezierCurveTo", <<c1x, c1y, c2x, c2y, x, y>>, bezierCurveTo(Begin, c1x, c1y, c2x, c2y, x, y))

Rectangle(width, height, border, fill) ==
  Do("rectangle", <<width, height>>, rectangle(Begin, width, height, border, fill))

FinishLine == Do("finishLine", <<>>, finishLine(Begin))

FinishPolygon(border, fill, eoFill) ==
  Do("finishPolygon", <<border, fill, eoFill>>, finishPolygon(Begin, border, fill, eoFill))

SetForeColor(value) == Do("foreColor", <<value>>, setForeColor(Begin, value))

SetFillColor(value) == Do("fillColor", <<value>>, setFillColor(Begin, value))

SetMargins(left, top, right, bottom) ==
  Do("margins", <<left, top, right, bottom>>,
     setMargins(Begin, [left |-> left, top |-> top, right |-> right, bottom |-> bottom]))

OffsetMargins(left, top) ==
  Do("offsetMargins", <<left, top>>, offsetMargins(Begin, left, top, 0, 0))

SetScaleMode(mode) == Do("scaleMode", <<mode>>, setScaleMode(Begin, mode))

AssignLineStyle(id) == Do("lineStyle", <<id>>, assignLineStyle(Begin, id))

ConstructLineStyle(id, width, capStyle, joinStyle, dashStyle) ==
  /\ id # pdf.lineStyle
  /\ Do("new LineStyle", <<id>>, constructLineStyle(Begin, id, width, capStyle, joinStyle, dashStyle))

SetWidth(value) == Do("lineStyle.width", <<value>>, setWidth(Begin, value))

SetCapStyle(value) == Do("lineStyle.capStyle", <<value>>, setCapStyle(Begin, value))

SetJoinStyle(value) == Do("lineStyle.joinStyle", <<value>>, setJoinStyle(Begin, value))

SetDashStyle(value) == Do("lineStyle.dashStyle", <<value>>, setDashStyle(Begin, value))

AssignFont(id) == Do("font", <<id>>, assignFont(Begin, id))

SetFontSize(value) == Do("font.size", <<value>>, setFontSize(Begin, value))

SetTextAlignment(value) == Do("textAlignment", <<value>>, setTextAlignment(Begin, value))

SetPictureAlignment(value) == Do("pictureAlignment", <<value>>, setPictureAlignment(Begin, value))

Write(x, y) == Do("write", <<>>, write(Begin, x, y))

\* font.familyName = value, on the surface's current Font object
SetFamilyName(value) == Do("font.familyName", <<value>>, setFamilyName(Begin, value))

\* font.bold = bold; font.italic = italic
SetFontStyle(bold, italic) ==
  Do("font.bold", <<bold, italic>>,
     [Begin EXCEPT !.fonts[Begin.font].bold = bold, !.fonts[Begin.font].italic = italic])

\* font.justify = value
SetJustify(value) == Do("font.justify", <<value>>, [Begin EXCEPT !.fonts[Begin.font].justify = value])

\* font.paragraphSpacing = value
SetParagraphSpacing(value) ==
  Do("font.paragraphSpacing", <<value>>, [Begin EXCEPT !.fonts[Begin.font].paragraphSpacing = value])

\* font.characterSpacing = value
SetCharacterSpacing(value) ==
  Do("font.characterSpacing", <<value>>, [Begin EXCEPT !.fonts[Begin.font].characterSpacing = value])

\* pdfDocument.embedFont(data, { customName })
EmbedFont(customName) == Do("embedFont", <<customName>>, embedFont(Begin, customName))

\* barcode(pattern, options) with an array of booleans
BarcodeBars(pattern, options) ==
  Do("barcode", <<pattern, options>>, barcodeBars(Begin, pattern, options))

\* qrCode(matrix, options) with a 2D array
QrCodeMatrix(matrix, options) ==
  Do("qrCode", <<matrix, options>>, qrCodeMatrix(Begin, matrix, options))

\* textWidth(text)
TextWidth(text) == Do("textWidth", <<text>>, textWidth(Begin, text))

\* write(text, maxWidth); maxWidth is <<>> when the caller gives none
WriteText(text, maxWidth) == Do("write", <<text, maxWidth>>, writeText(Begin, text, maxWidth))

\* writeLine(text, maxWidth)
WriteLine(text, maxWidth) == Do("writeLine", <<text, maxWidth>>, writeLine(Begin, text, maxWidth))

TextMeasure == Do("textWidth", <<>>, textMeasure(Begin))

Save == Do("save", <<>>, save(Begin))

PaintPicture(dpi, width) == Do("paintPicture", <<dpi, width>>, paintPicture(Begin, dpi, width))

Barcode(pattern) == Do("barcode", <<pattern>>, barcode(Begin, pattern))

QrCode(matrix) == Do("qrCode", <<matrix>>, qrCode(Begin, matrix))

SaveState ==
  /\ pdf' = saveState(Begin)
  /\ call' = [name |-> "saveState", args |-> <<>>]
  /\ restorer' = IF pdf'.err = "none" THEN <<savedState(Begin)>> ELSE restorer
  /\ UNCHANGED <<kern, encoding>>

Restore ==
  /\ restorer # <<>>
  /\ pdf' = restoreState(Begin, restorer[1])
  /\ call' = [name |-> "restore", args |-> <<>>]
  /\ UNCHANGED <<restorer, kern, encoding>>

-----------------------------------------------------------------------------
(* the inputs of the calls *)

\* lengths and coordinates, in inches
CoordInches == {0, 1}

\* the same in the unit of the current scale mode
Lengths == {UserValue(pdf.scaleMode, c) : c \in CoordInches}

\* a length, or a value that is not a finite number
AnyLength == Lengths \cup {NaN}

\* the sheet: 3 by 4 inches
SheetWidth == UserValue(pdf.scaleMode, 3)
SheetHeight == UserValue(pdf.scaleMode, 4)

\* no more than n segments are left pending
Pending(n) == Len(pdf.segments) < n

\* the operations of the surface that need a page, with those that validate
\* their argument; one path coordinate is varied
Next ==
  \/ \E w \in {SheetWidth, NaN} : NewPage(w, SheetHeight, FALSE, 0, 0)
  \/ \E x \in AnyLength : MoveTo(x, 0)
  \/ \E x \in AnyLength : OffsetTo(x, 0) /\ pdf'.positionInternal.x \in {0, PointsPerInch}
  \/ \E x \in AnyLength : SetPosition(x, 0)
  \/ \E x \in AnyLength : SetX(x)
  \/ \E y \in {0, NaN} : SetY(y)
  \/ \E x \in AnyLength : Pending(MaxPending) /\ LineTo(x, 0)
  \/ \E x \in AnyLength \ {0} : Pending(MaxPending) /\ QuadraticCurveTo(0, 0, x, 0)
  \/ \E x \in AnyLength \ {0} : Pending(MaxPending) /\ BezierCurveTo(0, 0, 0, 0, x, 0)
  \/ \E w \in AnyLength \ {0}, b \in BOOLEAN : Rectangle(w, w, b, ~b)
  \/ FinishLine
  \/ \E f \in BOOLEAN : FinishPolygon(TRUE, f, FALSE)
  \/ \E c \in {0, 1} : SetForeColor(c)
  \/ \E c \in {0} : SetFillColor(c)
  \/ \E l \in Lengths, r \in {0, NaN} : SetMargins(l, 0, r, 0) /\ pdf'.ctm.x \in {0, PointsPerInch}
  \/ \E l \in AnyLength \ {0} : OffsetMargins(l, 0) /\ pdf'.marginsInternal.left \in {0, PointsPerInch}
  \/ \E m \in {"Points", "Furlongs"} : SetScaleMode(m)
  \/ \E v \in {1, -1} : SetWidth(v)
  \/ \E v \in {0, 7} : SetCapStyle(v)
  \/ \E v \in {0, 7} : SetJoinStyle(v)
  \/ \E v \in {"Solid", "null"} : SetDashStyle(v)
  \/ \E x \in {0, PointsPerInch} : Write(x, 0)
  \/ TextMeasure
  \/ Save
  \/ \E d \in {96, NaN} : PaintPicture(d, 0)
  \/ \E p \in {"valid", "invalid", "empty"} : Barcode(p)
  \/ \E m \in {"valid", "invalid"} : QrCode(m)

Spec == Init /\ [][Next]_vars

\* a style that differs from the default one in one field at most
OneChange(ls) ==
  Cardinality({f \in {"width", "capStyle", "joinStyle", "dashStyle"} : ls[f] # DefaultLineStyle[f]}) <= 1

\* paths of up to MaxSegments segments on the first page, with the fields of the current line
\* style changed in place at any moment, one field away from the default
NextPath ==
  \/ pdf.pdfPage = 0 /\ NewPage(SheetWidth, SheetHeight, FALSE, 0, 0)
  \/ \E x \in Lengths : Pending(MaxSegments) /\ LineTo(x, 0)
  \/ Pending(MaxSegments) /\ QuadraticCurveTo(0, 0, UserValue(pdf.scaleMode, 1), 0)
  \/ Pending(MaxSegments) /\ BezierCurveTo(0, 0, 0, 0, UserValue(pdf.scaleMode, 1), 0)
  \/ \E x \in Lengths : MoveTo(x, 0)
  \/ FinishLine
  \/ \E b, f, e \in BOOLEAN : FinishPolygon(b, f, e)
  \/ \E v \in {1, 2} : SetWidth(v) /\ OneChange(CurrentLineStyle(pdf'))
  \/ \E v \in {0, 1} : SetCapStyle(v) /\ OneChange(CurrentLineStyle(pdf'))
  \/ \E v \in {0, 1} : SetJoinStyle(v) /\ OneChange(CurrentLineStyle(pdf'))
  \/ \E v \in {"Solid", "Dash"} : SetDashStyle(v) /\ OneChange(CurrentLineStyle(pdf'))

SpecPath == Init /\ [][NextPath]_vars

\* the drawing state together with the objects the caller holds
CallerView(s) ==
  [state |-> [DrawingState(s) EXCEPT !.font = s.font],
   styles |-> [i \in UserLineStyles |-> s.styles[i]],
   fonts |-> s.fonts]

NewCallerView == CallerView(NewEasyPdf)

\* the number of parts of the caller's view that are not as a new surface has them
Changes(s) ==
  LET v == CallerView(s)
  IN  Cardinality({f \in DOMAIN v.state : v.state[f] # NewCallerView.state[f]})
      + Cardinality({i \in UserLineStyles : v.styles[i] # DefaultLineStyle})
      + Cardinality({i \in FontObjects : v.fonts[i] # DefaultFont})

\* no more than MaxChanges of them at a time
Near(s) == Changes(s) <= MaxChanges

\* saveState and its restorer, with changes of every part of the drawing
\* state in between: by the setters of the surface, by assigning other
\* LineStyle and Font objects, and by changing the current objects in place
NextState ==
  \/ pdf.pdfPage = 0 /\ NewPage(SheetWidth, SheetHeight, FALSE, 0, 0)
  \/ SaveState
  \/ Restore /\ Near(pdf')
  \/ \E m \in {"Points", "Inches"} : SetScaleMode(m) /\ Near(pdf')
  \/ \E x \in Lengths : SetPosition(x, 0) /\ Near(pdf')
  \/ \E c \in {0, 1} : SetForeColor(c) /\ Near(pdf')
  \/ \E c \in {0, 1} : SetFillColor(c) /\ Near(pdf')
  \/ \E l \in Lengths : SetMargins(l, 0, 0, 0) /\ Near(pdf')
  \/ \E v \in {1, 2} : SetWidth(v) /\ Near(pdf')
  \/ \E w \in {1, 2} : ConstructLineStyle(2, w, 0, 0, "null") /\ Near(pdf')
  \/ \E id \in UserLineStyles : AssignLineStyle(id) /\ Near(pdf')
  \/ \E id \in FontObjects : AssignFont(id) /\ Near(pdf')
  \/ \E v \in {12, 20} : SetFontSize(v) /\ Near(pdf')
  \/ \E v \in {"LeftTop", "CenterTop"} : SetTextAlignment(v) /\ Near(pdf')
  \/ \E v \in {"LeftTop", "CenterCenter"} : SetPictureAlignment(v) /\ Near(pdf')

SpecState == Init /\ [][NextState]_vars

\* line styles made by the constructor and by the setters, assigned to the
\* surface and applied to the page
NextStyle ==
  \/ pdf.pdfPage = 0 /\ NewPage(SheetWidth, SheetHeight, FALSE, 0, 0)
  \/ \E w \in {2, -1}, d \in {"null", "Dash"} : ConstructLineStyle(2, w, 0, 0, d)
  \/ \E id \in UserLineStyles : AssignLineStyle(id)
  \/ \E v \in {1, 2, -1} : SetWidth(v)
  \/ \E v \in {0, 7} : SetCapStyle(v)
  \/ \E v \in {0, 7} : SetJoinStyle(v)
  \/ \E v \in {"Solid", "Dash", "null"} : SetDashStyle(v)
  \/ FinishLine

SpecStyle == Init /\ [][NextStyle]_vars

\* compressKerningPairs called on the array of pairs
Compress ==
  /\ kern.stage = 0
  /\ kern' = [kern EXCEPT !.stage = 1,
                          !.result = compressKerningPairs(kern.input).pairs,
                          !.same = compressKerningPairs(kern.input).same]
  /\ call' = [name |-> "compressKerningPairs", args |-> <<>>]
  /\ UNCHANGED <<pdf, restorer, encoding>>

\* compressKerningPairs called on the array the first call returned
CompressAgain ==
  /\ kern.stage = 1
  /\ kern' = [kern EXCEPT !.stage = 2, !.again = compressKerningPairs(kern.result).pairs]
  /\ call' = [name |-> "compressKerningPairs", args |-> <<>>]
  /\ UNCHANGED <<pdf, restorer, encoding>>

\* the adjustments of the pairs
Adjustments == {0, 10, 30}

\* arrays of up to MaxPairs pairs; the i-th pair has the code 64 + i (A, B,
\* C, ...) or the array of the codes 64 + i and 96 + i
KerningInputs ==
  UNION {{[i \in 1..n |-> KerningPair(IF isArray[i] THEN <<64 + i, 96 + i>> ELSE <<64 + i>>,
                                      isArray[i], adjustment[i])]
            : isArray \in [1..n -> BOOLEAN], adjustment \in [1..n -> Adjustments]}
         : n \in 0..MaxPairs}

\* any of these arrays is the one to compress
InitKern ==
  /\ pdf = NewEasyPdf
  /\ call = NoCall
  /\ restorer = <<>>
  /\ kern \in {[NoKern EXCEPT !.input = pairs] : pairs \in KerningInputs}
  /\ encoding = NoEncoding

NextKern ==
  \/ Compress
  \/ CompressAgain

SpecKern == InitKern /\ [][NextKern]_vars

\* the characters of the texts
TextChars == {"a", " ", "\n"}

\* the texts of up to n characters over an alphabet
Texts(alphabet, n) == UNION {[1..k -> alphabet] : k \in 0..n}

\* the last call wrote text
Written == call.name \in {"write", "writeLine"}

\* there is a page and the cursor is where the page starts it: a write is
\* followed by moveTo(0, 0)
AtOrigin == pdf.pdfPage > 0 /\ ~Written

\* the wrap widths of the calls: none, or one that holds "a a" when nothing
\* is kerned, or a wider one
WrapWidths == {<<>>, <<30>>, <<48>>}

\* wrapped and unwrapped writes of texts of wide letters and spaces, on one
\* page in points, with standard and custom fonts of every kind of kerning;
\* the font is chosen before the page is made, and every write starts at
\* the page's origin
NextWrap ==
  \/ pdf.pdfPage = 0 /\ NewPage(SheetWidth, SheetHeight, FALSE, 0, 0)
  \/ pdf.pdfPage = 0 /\ \E f \in {"Helvetica", "Courier", "Tight", "Loose"} : SetFamilyName(f)
  \/ pdf.pdfPage = 0 /\ \E f \in {"Tight", "Loose"} : CurrentFont(pdf).familyName = f /\ EmbedFont(f)
  \/ AtOrigin /\ \E v \in BOOLEAN : SetJustify(v)
  \/ AtOrigin /\ \E v \in {0, 2} : SetCharacterSpacing(v)
  \/ AtOrigin /\ \E text \in Texts({"a", " "}, MaxChars), w \in WrapWidths : WriteText(text, w)
  \/ AtOrigin /\ \E text \in Texts({"a", " "}, MaxChars), w \in WrapWidths : WriteLine(text, w)
  \/ Written /\ MoveTo(0, 0)

\* writeLine of texts of letters, spaces and line feeds, with and without a
\* wrap width of five inches, in three scale modes, with a font of four
\* inches (its letter is four inches wide, its space two) and a paragraph
\* spacing of 0 or 72; every write starts at the page's origin
NextLines ==
  \/ pdf.pdfPage = 0 /\ NewPage(SheetWidth, SheetHeight, FALSE, 0, 0)
  \/ pdf.pdfPage = 0 /\ SetFontSize(288)
  \/ AtOrigin /\ \E m \in {"Points", "Inches", "Hundredths"} : SetScaleMode(m)
  \/ AtOrigin /\ \E v \in {0, 72} : SetParagraphSpacing(v)
  \/ AtOrigin /\ CurrentFont(pdf).size = 288
       /\ \E text \in Texts(TextChars, MaxChars - 1), w \in {<<>>, <<UserValue(pdf.scaleMode, 5)>>} :
            WriteLine(text, w)
  \/ Written /\ MoveTo(0, 0)

SpecLines == Init /\ [][NextLines]_vars

\* the call may use the current font: the font is in the document, or the
\* document has room for one more
FontFits ==
  \/ getFont(pdf).font \in pdf.docFonts
  \/ Cardinality(pdf.docFonts) < MaxFonts

\* writes and measurements with the five standard families in their four
\* styles, unwrapped and wrapped, of one and of two lines of text
NextFont ==
  \/ pdf.pdfPage = 0 /\ NewPage(SheetWidth, SheetHeight, FALSE, 0, 0)
  \/ ~Written /\ \E f \in StandardFamilies : SetFamilyName(f)
  \/ ~Written /\ \E bold \in BOOLEAN, italic \in BOOLEAN : SetFontStyle(bold, italic)
  \/ AtOrigin /\ FontFits /\ TextWidth(<<"a">>)
  \/ AtOrigin /\ FontFits
       /\ \E text \in {<<"a">>, <<"a", "\n", "a">>}, w \in {<<>>, <<48>>} : WriteLine(text, w)
  \/ Written /\ MoveTo(0, 0)

SpecFont == Init /\ [][NextFont]_vars

\* the widths of the light margins the patterns and matrices come with:
\* none, one short of the quiet zone, the quiet zone, one more
MarginsOf(quietZone) == {0, quietZone - 1, quietZone, quietZone + 1}

\* bar patterns: up to MaxBars bars of any kind between two light margins
BarPatterns ==
  {Light(a) \o core \o Light(b) :
     a \in MarginsOf(QuietZoneBars), b \in MarginsOf(QuietZoneBars),
     core \in UNION {[1..n -> BOOLEAN] : n \in 0..MaxBars}}

\* a square matrix inside a light margin of a width on all four sides
Framed(core, margin) ==
  [row \in 1..(Len(core) + 2 * margin) |-> [col \in 1..(Len(core) + 2 * margin) |->
     isDarkModule(core, row - 1 - margin, col - 1 - margin)]]

\* QR matrices: up to MaxModules rows and columns of any kind in a margin
Matrices ==
  {Framed(core, margin) :
     margin \in MarginsOf(quietZoneWidth),
     core \in UNION {[1..n -> [1..n -> BOOLEAN]] : n \in 0..MaxModules}}

\* the last call drew a symbol
Drawn == call.name \in {"barcode", "qrCode"}

\* barcodes and QR codes of these patterns and matrices, with and without
\* quiet zone, inverted or not, in the default size or a given one
NextSymbol ==
  \/ pdf.pdfPage = 0 /\ NewPage(SheetWidth, SheetHeight, FALSE, 0, 0)
  \/ pdf.pdfPage > 0 /\ ~Drawn
       /\ \E pattern \in BarPatterns, width \in {<<>>, <<60>>}, invert \in BOOLEAN, quietZone \in BOOLEAN :
            BarcodeBars(pattern, [width |-> width, height |-> <<>>, invert |-> invert,
                                  quietZone |-> quietZone])
  \/ pdf.pdfPage > 0 /\ ~Drawn
       /\ \E matrix \in Matrices, size \in {<<>>, <<60>>}, invert \in BOOLEAN, quietZone \in BOOLEAN :
            QrCodeMatrix(matrix, [size |-> size, invert |-> invert, quietZone |-> quietZone])
  \/ Drawn /\ MoveTo(0, 0)

SpecSymbol == Init /\ [][NextSymbol]_vars

\* createCode128 called on a string
CreateCode128(data) ==
  /\ encoding.stage = 0
  /\ encoding' = [encoding EXCEPT !.stage = 1, !.data = data, !.result = <<createCode128(data)>>]
  /\ call' = [name |-> "createCode128", args |-> <<data>>]
  /\ UNCHANGED <<pdf, restorer, kern>>

\* createCode128 called on the same string again
CreateCode128Again ==
  /\ encoding.stage = 1
  /\ encoding' = [encoding EXCEPT !.stage = 2, !.again = <<createCode128(encoding.data)>>]
  /\ call' = [name |-> "createCode128", args |-> <<encoding.data>>]
  /\ UNCHANGED <<pdf, restorer, kern>>

\* the characters of the inputs: 1 (in both code sets), a (in B only), tab
\* (in A only) and the euro sign (in neither)
CodeChars == {49, 97, 9, 8364}

\* strings of up to MaxData of these characters and strings of up to
\* MaxDigits digits 1 and 2
CodeInputs == Texts(CodeChars, MaxData) \cup Texts({49, 50}, MaxDigits)

NextCode ==
  \/ \E data \in CodeInputs : CreateCode128(data)
  \/ CreateCode128Again

SpecCode == Init /\ [][NextCode]_vars

\* toPoints(value): the points are kept with the call
ToPoints(value) ==
  Do("toPoints",
     <<value, IF IsFiniteQuotient(value) THEN <<toPointsExact(pdf.scaleMode, value)>> ELSE <<>>>>,
     IF IsFiniteQuotient(value) THEN Begin ELSE Throw(Begin, "NotFinite"))

\* fromPoints called on the points the last toPoints returned; the value
\* they came from is kept with the call
FromPointsBack ==
  /\ call.name = "toPoints" /\ pdf.err = "none"
  /\ Do("fromPoints",
        <<call.args[2][1], fromPointsExact(pdf.scaleMode, call.args[2][1]), call.args[1]>>,
        Begin)

\* the values to convert: wholes, thirds and quarters, and 1/0
Values ==
  {Quotient(num, den) : num \in (0 - MaxValue)..MaxValue, den \in {1, 3, 4}}
    \cup {Quotient(1, 0)}

\* conversions in every scale mode
NextScale ==
  \/ \E mode \in ScaleModes \cup {"Furlongs"} : SetScaleMode(mode)
  \/ \E value \in Values : ToPoints(value)
  \/ FromPointsBack

SpecScale == Init /\ [][NextScale]_vars

\* paths and lines of text on up to MaxPages pages, in two widths and two
\* standard fonts
NextPages ==
  \/ ~Written /\ NewPage(SheetWidth, SheetHeight, FALSE, 0, 0)
  \/ ~Written /\ \E f \in {"Helvetica", "Courier"} : SetFamilyName(f)
  \/ ~Written /\ \E v \in {1, 2} : SetWidth(v)
  \/ AtOrigin /\ Pending(MaxPending) /\ \E x \in Lengths : LineTo(x, 0)
  \/ AtOrigin /\ FinishLine
  \/ AtOrigin /\ WriteLine(<<"a">>, <<>>)
  \/ Written /\ MoveTo(0, 0)

SpecPages == Init /\ [][NextPages]_vars

\* font.hangingIndent = value, on the surface's current Font object
SetHangingIndent(value) ==
  Do("font.hangingIndent", <<value>>, [Begin EXCEPT !.fonts[Begin.font].hangingIndent = value])

\* the wrap widths that hold two narrow letters, or two wide ones, of the
\* default font with a space between
IndentWrapWidths == {<<18>>, <<30>>}

\* wrapped lines of wide and narrow letters in the default font, on one page
\* in points, with and without a hanging indent of the width of a narrow
\* letter, justified or not; every write starts at the page's origin
NextIndent ==
  \/ pdf.pdfPage = 0 /\ NewPage(SheetWidth, SheetHeight, FALSE, 0, 0)
  \/ AtOrigin /\ \E v \in {0, 6} : SetHangingIndent(v)
  \/ AtOrigin /\ \E v \in BOOLEAN : SetJustify(v)
  \/ AtOrigin /\ \E text \in Texts({"a", "b", " "}, MaxChars), w \in IndentWrapWidths :
                    WriteLine(text, w)
  \/ Written /\ MoveTo(0, 0)

SpecIndent == Init /\ [][NextIndent]_vars

\* showTextAdjusted(text, doc, embedder): the operand of the operator
ShowTextAdjusted(familyName, text) ==
  /\ call' = [name |-> "showTextAdjusted",
              args |-> <<familyName, text, calculateKerningPairs(familyName, text)>>]
  /\ UNCHANGED <<pdf, restorer, kern, encoding>>

\* texts of up to MaxChars letters and spaces shown with a standard font and
\* with the custom fonts
NextAdjusted ==
  \E f \in {"Times", "Tight", "Loose"}, text \in Texts({"a", " "}, MaxChars) :
    ShowTextAdjusted(f, text)

SpecAdjusted == Init /\ [][NextAdjusted]_vars

SpecWrap == Init /\ [][NextWrap]_vars

-----------------------------------------------------------------------------
(* Properties of the path builder *)

StyleOperators == {"SetLineWidth", "SetLineCapStyle", "SetLineJoinStyle", "SetLineDashPattern"}

AppendCalls == {"lineTo", "quadraticCurveTo", "bezierCurveTo"}

\* the operators of a path: move-to, then one operator per segment
PathOperators(start, segments) ==
  <<Op("MoveTo", <<start.x, start.y>>)>> \o [i \in 1..Len(segments) |-> SegmentOp(segments[i])]

\* the line style parameters a page has in force once a style is applied in full
GsOf(ls) == GsAfterAll(PageDefaultGs, applyLineStyleOps(ls, <<>>))

\* the operators of a sequence that are not line style operators
Painting(ops) == SelectSeq(ops, LAMBDA o : o.op \notin StyleOperators)

\* C1: when a field of the line style was changed after segments were
\* appended and another segment is appended, the pending segments are pushed
\* as one path ending in one stroke while the style applied to the page is
\* still the one the path was opened with; the operators of the new style
\* follow that stroke; the path start becomes the cursor; the new segment is
\* alone in a new path whose style is the new one. A pending path always has
\* the style it was opened with as the applied style, so the new path will
\* be stroked under the new style.
C1_StyleChangeFlushesUnderOldStyle ==
  /\ [](pdf.segments # <<>> => pdf.lastSetLineStyle = <<pdf.startLineStyle>>)
  /\ [][(/\ call'.name \in AppendCalls
         /\ pdf'.err = "none"
         /\ pdf.segments # <<>>
         /\ lineStyleChanged(pdf.startLineStyle, CurrentLineStyle(pdf)))
        => LET n == Len(pdf.segments)
               old == pdf.startLineStyle
               new == CurrentLineStyle(pdf)
           IN  /\ pdf.lastSetLineStyle = <<old>>
               /\ pdf.pdfPage = 1 => pdf.gs = GsOf(old)
               /\ Len(pdf'.out) > n + 2
               /\ SubSeq(pdf'.out, 1, n + 2)
                    = PathOperators(pdf.start, pdf.segments) \o <<Op("StrokePath", <<>>)>>
               /\ SubSeq(pdf'.out, n + 3, Len(pdf'.out)) = applyLineStyleOps(new, <<old>>)
               /\ pdf'.start = pdf.positionInternal
               /\ pdf'.startLineStyle = new
               /\ pdf'.lastSetLineStyle = <<new>>
               /\ pdf.pdfPage = 1 => pdf'.gs = GsOf(new)
               /\ Len(pdf'.segments) = 1]_vars

\* a segment was appended after a style change: the call pushed a stroke and
\* then at least one line style operator, and left one segment pending
C1_Witness ==
  /\ call.name \in AppendCalls
  /\ pdf.err = "none"
  /\ Len(pdf.segments) = 1
  /\ \E i \in 1..Len(pdf.out) :
       /\ pdf.out[i].op = "StrokePath"
       /\ i >= 3
       /\ i < Len(pdf.out)
       /\ pdf.out[Len(pdf.out)].op \in StyleOperators

\* the end point of a segment
SegmentEnd(seg) == Point(seg.pts[Len(seg.pts) - 1], seg.pts[Len(seg.pts)])

\* C2: after finishPolygon on a path with pending segments the cursor is the
\* point where that path started, whatever border, fill and evenOdd are;
\* after finishLine on such a path the cursor is the end point of the last
\* segment.
C2_CursorAfterFinish ==
  [][/\ (call'.name = "finishPolygon" /\ pdf.segments # <<>> /\ pdf'.err = "none")
          => pdf'.positionInternal = pdf.start
     /\ (call'.name = "finishLine" /\ pdf.segments # <<>> /\ pdf'.err = "none")
          => pdf'.positionInternal = SegmentEnd(pdf.segments[Len(pdf.segments)])]_vars

\* the terminal operator of the table: border, fill, evenOdd
TableTerminal(border, fill, evenOdd) ==
  IF border /\ fill /\ evenOdd THEN <<Op("CloseFillEvenOddAndStroke", <<>>)>>
  ELSE IF border /\ fill THEN <<Op("CloseFillNonZeroAndStroke", <<>>)>>
  ELSE IF border THEN <<Op("CloseAndStroke", <<>>)>>
  ELSE IF fill /\ evenOdd THEN <<Op("FillEvenOdd", <<>>)>>
  ELSE IF fill THEN <<Op("FillNonZero", <<>>)>>
  ELSE <<>>

\* C5: finishPolygon(border, fill, evenOdd) on a path with pending segments
\* pushes one move-to, the segment operators in order and the one terminal
\* operator of the table, and nothing at all when border and fill are both
\* false.
C5_TerminalOperatorTable ==
  [][(call'.name = "finishPolygon" /\ pdf.segments # <<>> /\ pdf'.err = "none")
       => LET term == TableTerminal(call'.args[1], call'.args[2], call'.args[3])
          IN  Painting(pdf'.out)
                = IF term = <<>> THEN <<>> ELSE PathOperators(pdf.start, pdf.segments) \o term]_vars

-----------------------------------------------------------------------------
(* Properties of the calls of the surface *)

\* the surface without the record of the last call's operators and error
SurfaceState(s) == [s EXCEPT !.out = <<>>, !.err = "none"]

\* the calls that move the cursor or set a colour
CursorAndColourCalls == {"moveTo", "offsetTo", "position", "x", "y", "foreColor", "fillColor"}

\* C3: a call that moves the cursor (moveTo, offsetTo, the position, x and y
\* setters) or sets the stroke or fill colour leaves no segment pending.
C3_ChangeFlushesPendingPath ==
  (call.name \in CursorAndColourCalls /\ pdf.err = "none") => pdf.segments = <<>>

\* the errors of a rejected argument
Rejections == {"NotFinite", "NegativeWidth", "NullDashStyle", "InvalidScaleMode"}

\* C4: a call rejected for a value that is not finite, a negative width, a
\* null dash style or an invalid scale mode pushes no operator and leaves
\* the cursor, the margins, the pending segments and the last applied line
\* style as they were.
C4_RejectedCallChangesNothing ==
  [][pdf'.err \in Rejections
       => /\ pdf'.out = <<>>
          /\ pdf'.positionInternal = pdf.positionInternal
          /\ pdf'.marginsInternal = pdf.marginsInternal
          /\ pdf'.segments = pdf.segments
          /\ pdf'.lastSetLineStyle = pdf.lastSetLineStyle]_vars

\* the cursor, path, shape, colour, margin, text, measurement, picture,
\* barcode and save operations
PageOperations ==
  {"moveTo", "offsetTo", "position", "x", "y", "lineTo", "quadraticCurveTo", "bezierCurveTo",
   "finishLine", "finishPolygon", "rectangle", "foreColor", "fillColor", "margins",
   "offsetMargins", "write", "textWidth", "paintPicture", "barcode", "qrCode", "save"}

\* C8: before the first newPage each of these operations raises an error,
\* pushes no operator and changes nothing of the surface; the error is the
\* no-page error, except that barcode() with a pattern of other characters
\* than 0 and 1 raises the invalid-pattern error.
C8_NoPageErrorOrInvalidPattern ==
  [][(pdf.pdfPage = 0 /\ call'.name \in PageOperations)
       => /\ pdf'.err = IF call'.name = "barcode" /\ call'.args[1] = "invalid"
                          THEN "InvalidPattern" ELSE "NoPage"
          /\ pdf'.out = <<>>
          /\ SurfaceState(pdf') = SurfaceState(pdf)]_vars

\* C8 as stated: before the first newPage each of these operations raises
\* the no-page error, pushes no operator and changes nothing of the surface.
C8_AlwaysNoPageError ==
  [][(pdf.pdfPage = 0 /\ call'.name \in PageOperations)
       => /\ pdf'.err = "NoPage"
          /\ pdf'.out = <<>>
          /\ SurfaceState(pdf') = SurfaceState(pdf)]_vars

\* an operation was called before the first newPage and raised the no-page error
C8_Witness ==
  /\ pdf.pdfPage = 0
  /\ call.name \in PageOperations
  /\ pdf.err = "NoPage"

-----------------------------------------------------------------------------
(* Properties of saveState and of LineStyle *)

\* C6: after the restorer that saveState() returned is called, position,
\* stroke and fill colour, line style, margins, font, text alignment,
\* picture alignment and scale mode have the values they had when saveState()
\* was called, the fields of the line style and of the font included.
C6_RestoreGivesSavedState ==
  (call.name = "restore" /\ pdf.err = "none") => DrawingState(pdf) = restorer[1].atSave

\* the setters of LineStyle
StyleSetters == {"lineStyle.width", "lineStyle.capStyle", "lineStyle.joinStyle", "lineStyle.dashStyle"}

\* C7: the current line style of the surface always has a width that is not
\* negative and a dash style that is not null, whether it comes from the
\* constructor, the setters or an assignment to the surface; a setter given a
\* negative width or a null dash style raises an error and leaves the style
\* as it was.
C7_WidthNotNegativeDashNotNull ==
  /\ [](CurrentLineStyle(pdf).width >= 0 /\ CurrentLineStyle(pdf).dashStyle # "null")
  /\ [][(call'.name \in StyleSetters /\ pdf'.err \in {"NegativeWidth", "NullDashStyle"})
          => SurfaceState(pdf') = SurfaceState(pdf)]_vars

-----------------------------------------------------------------------------
(* Properties of compressKerningPairs *)

RECURSIVE AllCodes(_)
AllCodes(pairs) == IF pairs = <<>> THEN <<>> ELSE Head(pairs).code \o AllCodes(Tail(pairs))

\* the indices at which a group starts: the first pair and every later pair
\* whose adjustment is not 0
GroupStarts(pairs) == {i \in 1..Len(pairs) : i = 1 \/ pairs[i].adjustment # 0}

\* the index at which the k-th group starts, and the one at which it ends
GroupStart(pairs, k) ==
  CHOOSE i \in GroupStarts(pairs) : Cardinality({j \in GroupStarts(pairs) : j <= i}) = k

GroupEnd(pairs, k) ==
  IF k = Cardinality(GroupStarts(pairs)) THEN Len(pairs) ELSE GroupStart(pairs, k + 1) - 1

\* the example: A, B, C, D are the codes 65 to 68
ExamplePairs ==
  <<KerningPair(<<65>>, FALSE, 10), KerningPair(<<66>>, FALSE, 0),
    KerningPair(<<67>>, FALSE, 0), KerningPair(<<68>>, FALSE, 30)>>

ExampleResult ==
  <<KerningPair(<<65, 66, 67>>, TRUE, 10), KerningPair(<<68>>, FALSE, 30)>>

\* C10: the result has one entry per group, a group being the first pair or
\* a later pair whose adjustment is not 0 together with the pairs of
\* adjustment 0 that follow it; the entry has the codes of its group in order
\* and the adjustment of the group's first pair; so the codes of the result,
\* one after the other, are those of the input; and [{A,10},{B,0},{C,0},{D,30}]
\* gives [{[A,B,C],10},{D,30}].
C10_GroupsOfZeroAdjustment ==
  kern.stage >= 1 =>
    LET in == kern.input
        res == kern.result
    IN  /\ Len(res) = Cardinality(GroupStarts(in))
        /\ \A k \in 1..Len(res) :
             LET first == GroupStart(in, k)
                 last == GroupEnd(in, k)
             IN  /\ res[k].code = AllCodes(SubSeq(in, first, last))
                 /\ res[k].adjustment = in[first].adjustment
                 /\ res[k].isArray = (last > first \/ in[first].isArray)
        /\ AllCodes(res) = AllCodes(in)
        /\ in = ExamplePairs => res = ExampleResult

\* the example was compressed
C10_Witness ==
  /\ kern.stage >= 1
  /\ kern.input = ExamplePairs
  /\ Len(kern.result) = 2

-----------------------------------------------------------------------------
(* Properties of the text layout *)

\* the lines of the last call that show text
RenderedLines == {i \in 1..Len(pdf.lines) : Len(pdf.lines[i].text) > 0}

\* a wrapped write has been made
WrappedWrite == call.name \in {"write", "writeLine"} /\ call.args[2] # <<>> /\ pdf.err = "none"

\* the measured width of a text, not counting the character spacing after
\* its last glyph
MeasuredWidth(text) ==
  getTextWidth(pdf, text) - fromPoints(pdf.scaleMode, CurrentFont(pdf).characterSpacing)

\* the font's kerning moves no glyph away from a space next to it
SpacesNotKernedApart(familyName) ==
  \A c \in TextChars : Kerning(familyName, c, " ") <= 0 /\ Kerning(familyName, " ", c) <= 0

\* line i of the last call is wider than the wrap width without being one
\* single word
TooWide(i) ==
  /\ MeasuredWidth(pdf.lines[i].text) > call.args[2][1]
  /\ Len(splitWords(pdf.lines[i].text, <<>>)) > 1

TextMatrices == SelectSeq(pdf.out, LAMBDA o : o.op = "SetTextMatrix")

\* line i of the last call is one that is to be justified: font.justify is
\* set, a wrap width was given, the line is not the last one of the wrapped
\* text and it has a space
ToJustify(i) ==
  /\ CurrentFont(pdf).justify
  /\ call.args[2] # <<>>
  /\ i < Len(pdf.lines)
  /\ Len(splitWords(pdf.lines[i].text, <<>>)) > 1

\* C12: a line to be justified is drawn as wide as the wrap width, with the
\* missing width shared among its spaces (for a custom font, whose words
\* are drawn one by one, the last word of a first line ends at the wrap
\* width); every other line is drawn with no word spacing and as wide as
\* it measures
C12_JustifiedExactlyWhen ==
  (call.name \in {"write", "writeLine"} /\ pdf.err = "none") =>
    \A i \in RenderedLines :
      LET line == pdf.lines[i]
          words == splitWords(line.text, <<>>)
      IN  IF ToJustify(i)
            THEN /\ line.width = call.args[2][1]
                 /\ line.wordSpacing =
                      Quotient(call.args[2][1] - MeasuredWidth(line.text), Len(words) - 1)
                 /\ (i = 1 /\ CurrentFont(pdf).embedded /\ line.wordSpacing.num # 0
                       /\ \A k \in 1..Len(words) : Len(words[k]) > 0)
                      => (TextMatrices[Len(words)].args[2] + MeasuredWidth(words[Len(words)]))
                           * line.wordSpacing.den
                         + TextMatrices[Len(words)].args[3] * line.wordSpacing.num
                         = call.args[2][1] * line.wordSpacing.den
            ELSE /\ line.wordSpacing.num = 0
                 /\ line.width = IF CurrentFont(pdf).justify /\ call.args[2] # <<>> /\ i < Len(pdf.lines)
                                   THEN MeasuredWidth(line.text)
                                   ELSE getTextWidth(pdf, line.text)

\* a wrapped write with font.justify set spread the two words of a first
\* line and left the last line as it was
C12_Witness ==
  /\ call.name = "writeLine" /\ pdf.err = "none"
  /\ Len(pdf.lines) = 2
  /\ ToJustify(1)
  /\ pdf.lines[1].wordSpacing.num > 0
  /\ \A k \in 1..2 : Len(splitWords(pdf.lines[1].text, <<>>)[k]) > 0
  /\ Len(pdf.lines[2].text) > 0
  /\ pdf.lines[2].wordSpacing.num = 0

\* how far down the cursor went from the start of line i of the last call
\* to the start of the next line, or to the end of the call
Down(i) ==
  (IF i < Len(pdf.lines) THEN pdf.lines[i + 1].at.y ELSE pdf.positionInternal.y)
  - pdf.lines[i].at.y

\* one line height, in points
LineHeight == toPoints(pdf.scaleMode, getTextHeight(pdf))

\* a writeLine call that went through
NewLineWrite == call.name = "writeLine" /\ pdf.err = "none"

\* line i is the last line of its paragraph: the line of an unwrapped text,
\* or the line writeWrapped writes after its loop
LastOfParagraph(i) == pdf.lines[i].justifyWidth = <<>>

\* C13 as stated: in a writeLine call every line moves the cursor down by
\* one line height, and the paragraph spacing is added after the last line
\* of the call only
C13_ParagraphSpacingOncePerCall ==
  (NewLineWrite /\ pdf.scaleMode = "Points") =>
    \A i \in 1..Len(pdf.lines) :
      Down(i) = LineHeight
                + (IF i = Len(pdf.lines) THEN CurrentFont(pdf).paragraphSpacing ELSE 0)

\* C13: in a writeLine call every line moves the cursor down by one line
\* height, and the paragraph spacing is added after the last line of every
\* paragraph (line of the text), not after a line that was wrapped
C13_ParagraphSpacingOncePerParagraph ==
  (NewLineWrite /\ pdf.scaleMode = "Points") =>
    \A i \in 1..Len(pdf.lines) :
      Down(i) = LineHeight
                + (IF LastOfParagraph(i) THEN CurrentFont(pdf).paragraphSpacing ELSE 0)

\* a writeLine call with a paragraph spacing wrapped a paragraph into two
\* lines and wrote another paragraph
C13_Witness ==
  /\ NewLineWrite /\ pdf.scaleMode = "Points"
  /\ CurrentFont(pdf).paragraphSpacing > 0
  /\ Len(pdf.lines) = 3
  /\ ~LastOfParagraph(1) /\ LastOfParagraph(2) /\ LastOfParagraph(3)
  /\ Len(pdf.lines[3].text) > 0

\* C14: in every scale mode the cursor movement that writeLine adds to the
\* line height after its last line is font.paragraphSpacing points, the
\* amount textParagraphLeading() reports
C14_ParagraphSpacingInPoints ==
  (NewLineWrite /\ Len(pdf.lines) > 0) =>
    Down(Len(pdf.lines)) - LineHeight = toPoints(pdf.scaleMode, getTextParagraphLeading(pdf))

\* the operators of the last call with a name
OpsNamed(name) == SelectSeq(pdf.out, LAMBDA o : o.op = name)

\* C15: every run of text of a write is drawn, for Times, Helvetica and
\* Courier, with the family's own bold, italic or bold-italic font and
\* nothing simulated, and for Symbol and ZapfDingbats with bold simulated if
\* the font is bold and italic simulated if it is italic, whatever the
\* document's fonts were before
C15_TrueVariantOrSimulation ==
  LET font == CurrentFont(pdf)
      runs == Len(OpsNamed("ShowTextAdjusted"))
      simulatedBold == Len(OpsNamed("SetTextRenderingMode"))
      simulatedItalic == Len(SelectSeq(pdf.out, LAMBDA o : o.op = "SetTextMatrix" /\ o.args[1]))
      faces == {o.args[1] : o \in {pdf.out[i] : i \in {j \in 1..Len(pdf.out) : pdf.out[j].op = "SetFontAndSize"}}}
  IN  (call.name = "writeLine" /\ pdf.err = "none") =>
        /\ runs > 0
        /\ faces = {FullFontName(font.familyName, font.bold, font.italic)}
        /\ IF font.familyName \in {"Times", "Helvetica", "Courier"}
             THEN simulatedBold = 0 /\ simulatedItalic = 0
             ELSE /\ simulatedBold = (IF font.bold THEN runs ELSE 0)
                  /\ simulatedItalic = (IF font.italic THEN runs ELSE 0)

-----------------------------------------------------------------------------
(* Properties of barcodes and QR codes *)

\* the pattern or matrix the last call was given, and its options
GivenSymbol == call.args[1]
SymbolOptions == call.args[2]

\* the last call drew a bar pattern, or a QR matrix, without an error
DrewBars == call.name = "barcode" /\ pdf.err = "none"
DrewModules == call.name = "qrCode" /\ pdf.err = "none"

\* a bar pattern has the margin: 10 light bars at both ends
BarsHaveMargin(pattern) ==
  /\ Len(pattern) >= 10
  /\ \A i \in 1..10 : ~pattern[i]
  /\ \A i \in (Len(pattern) - 9)..Len(pattern) : ~pattern[i]

\* a matrix has the margin: 4 light modules on all four sides
ModulesHaveMargin(matrix) ==
  \A row \in 1..Len(matrix), col \in 1..Len(matrix) :
    (row <= 4 \/ col <= 4 \/ row > Len(matrix) - 4 \/ col > Len(matrix) - 4)
      => ~matrix[row][col]

\* the bars the pattern is to be drawn as
ExpectedBars(pattern, quietZone) ==
  IF BarsHaveMargin(pattern) = quietZone THEN pattern
  ELSE IF quietZone THEN Light(10) \o pattern \o Light(10)
  ELSE SubSeq(pattern, 11, Len(pattern) - 10)

\* the modules the matrix is to be drawn as
ExpectedModules(matrix, quietZone) ==
  IF ModulesHaveMargin(matrix) = quietZone THEN matrix
  ELSE IF quietZone THEN Framed(matrix, 4)
  ELSE [row \in 1..(Len(matrix) - 8) |-> [col \in 1..(Len(matrix) - 8) |->
          matrix[row + 4][col + 4]]]

\* the rectangles of the last call
Rectangles == OpsNamed("Rectangle")

\* the bars drawn, as a pattern: dark where a rectangle is, unless inverted
DrawnBars ==
  [i \in 1..pdf.symbol[1].count |->
     (\E k \in 1..Len(Rectangles) : Rectangles[k].args[2] = i - 1) # SymbolOptions.invert]

\* the modules drawn, as a matrix
DrawnModules ==
  [row \in 1..pdf.symbol[1].count |-> [col \in 1..pdf.symbol[1].count |->
     (\E k \in 1..Len(Rectangles) :
        Rectangles[k].args[4] = col - 1 /\ Rectangles[k].args[5] = row - 1) # SymbolOptions.invert]]

\* C16: a pattern or matrix that is drawn is drawn unchanged when it has the
\* margin and a quiet zone is asked for, or has none and none is asked for;
\* with one standard margin added when it has none and one is asked for; and
\* with the margin stripped when it has one and none is asked for
C16_QuietZoneHandling ==
  /\ DrewBars => DrawnBars = ExpectedBars(GivenSymbol, SymbolOptions.quietZone)
  /\ DrewModules => DrawnModules = ExpectedModules(GivenSymbol, SymbolOptions.quietZone)

\* a pattern with a margin at one end only was drawn with a quiet zone
C16_Witness ==
  /\ DrewBars
  /\ SymbolOptions.quietZone
  /\ ~BarsHaveMargin(GivenSymbol)
  /\ Len(GivenSymbol) > 10 /\ \A i \in 1..10 : ~GivenSymbol[i]
  /\ \E i \in 1..Len(GivenSymbol) : GivenSymbol[i]
  /\ pdf.symbol[1].count = Len(GivenSymbol) + 20
  /\ Len(Rectangles) > 0

\* a matrix with a margin was drawn without a quiet zone
C16_StrippedMatrix ==
  /\ DrewModules
  /\ ~SymbolOptions.quietZone
  /\ ModulesHaveMargin(GivenSymbol)
  /\ pdf.symbol[1].count = Len(GivenSymbol) - 8
  /\ Len(Rectangles) > 0

\* the last call was to strip the margin of a pattern or matrix that holds
\* nothing besides the margin
StripsAllThereIs ==
  /\ Drawn
  /\ ~SymbolOptions.quietZone
  /\ \/ call.name = "barcode" /\ BarsHaveMargin(GivenSymbol) /\ Len(GivenSymbol) <= 20
     \/ call.name = "qrCode" /\ Len(GivenSymbol) > 0 /\ ModulesHaveMargin(GivenSymbol)
          /\ Len(GivenSymbol) <= 8

\* C17: stripping the margin of a pattern or matrix that holds nothing
\* besides the margin raises an error and emits no operator of a symbol
C17_TooSmallToStripRaises ==
  StripsAllThereIs =>
    pdf.err # "none" /\ Rectangles = <<>> /\ OpsNamed("Fill") = <<>>

-----------------------------------------------------------------------------
(* Properties of createCode128 *)

\* createCode128 was called, and what it was given and gave
Encoded == encoding.stage >= 1
EncodedData == encoding.data
EncodingResult == encoding.result[1]

\* the string is made of digits only
AllDigits(data) == \A i \in 1..Len(data) : data[i] \in 48..57

\* the string begins with at least four digits
BeginsWithFourDigits(data) == Len(data) >= 4 /\ AllDigits(SubSeq(data, 1, 4))

\* the pattern of the string encoded in code set B from the start
PatternInSetB(data) ==
  LET encoded == encodeWithCode(data, <<104>>, "B", 0)
  IN  joinPatterns(encoded \o <<checksum(encoded), 106>>)

\* C18: an encoding starts in code set C (start code 105) exactly when the
\* input begins with four digits, and otherwise in B (104) if the first
\* character is one of space to DEL, else in A (103); an input of an even
\* number n >= 4 of digits has n/2 data symbols, its pairs of digits,
\* between start code and checksum, and fewer bits than its encoding in
\* code set B
C18_CodeSetCForDigits ==
  Encoded /\ EncodingResult.err = "none" =>
    LET data == EncodedData
        codes == EncodingResult.codes
    IN  /\ codes[1] = (IF BeginsWithFourDigits(data) THEN 105
                       ELSE IF data[1] \in 32..127 THEN 104 ELSE 103)
        /\ AllDigits(data) /\ Len(data) >= 4 /\ Len(data) % 2 = 0 =>
              /\ Len(codes) = Len(data) \div 2 + 3
              /\ \A k \in 1..(Len(data) \div 2) :
                    codes[k + 1] = 10 * (data[2 * k - 1] - 48) + (data[2 * k] - 48)
              /\ Len(EncodingResult.pattern) < Len(PatternInSetB(data))

\* six digits were encoded as three pairs
C18_Witness ==
  /\ Encoded
  /\ EncodingResult.err = "none"
  /\ Len(EncodedData) = 6 /\ AllDigits(EncodedData)
  /\ EncodingResult.codes[1] = 105
  /\ Len(EncodingResult.codes) = 6
  /\ Len(EncodingResult.pattern) = 68
  /\ Len(PatternInSetB(EncodedData)) = 101

\* the inputs createCode128 gives a pattern for, and their patterns
EncodableInputs == {data \in CodeInputs : createCode128(data).err = "none"}
EncodedPatterns == {createCode128(data).pattern : data \in EncodableInputs}

\* C19: a second call on the same input gives the pattern of the first,
\* and no two inputs that can be encoded have the same pattern: there are
\* as many patterns as there are such inputs, this one's among them
C19_DeterministicAndInjective ==
  /\ encoding.stage = 2 => encoding.again = encoding.result
  /\ Encoded /\ EncodingResult.err = "none" =>
        /\ EncodingResult.pattern \in EncodedPatterns
        /\ Cardinality(EncodedPatterns) = Cardinality(EncodableInputs)

\* an input that changes code set was encoded twice, one among many inputs
\* with a pattern of as many bits
C19_Witness ==
  /\ encoding.stage = 2
  /\ EncodingResult.err = "none"
  /\ encoding.again[1].pattern = EncodingResult.pattern
  /\ EncodedData = <<97, 9, 49>>
  /\ EncodingResult.codes = <<104, 65, 101, 73, 17, checksum(<<104, 65, 101, 73, 17>>), 106>>
  /\ Cardinality({pattern \in EncodedPatterns : Len(pattern) = Len(EncodingResult.pattern)}) > 10

\* C20: createCode128 raises an error exactly for the empty string and for
\* the inputs with a character that is in neither code set (the code sets
\* hold the characters 0 to 127), and gives a pattern of bits otherwise
C20_ErrorExactlyForUnencodable ==
  Encoded =>
    /\ EncodingResult.err # "none"
          <=> (EncodedData = <<>> \/ \E i \in 1..Len(EncodedData) : EncodedData[i] \notin 0..127)
    /\ EncodingResult.err = "none"
          => Len(EncodingResult.pattern) = 11 * (Len(EncodingResult.codes) - 1) + 13

\* an input with a euro sign after a letter was refused
C20_Witness ==
  /\ Encoded
  /\ Len(EncodedData) >= 2
  /\ EncodedData[1] = 97 /\ EncodedData[Len(EncodedData)] = 8364
  /\ EncodingResult.err = "CannotBeEncoded"
  /\ EncodingResult.pattern = ""

-----------------------------------------------------------------------------
(* Properties of the scale modes *)

\* toPoints returned, and what it was given and returned
Converted == call.name = "toPoints" /\ pdf.err = "none"
ConvertedValue == call.args[1]
ConvertedPoints == call.args[2][1]

\* C21: in every scale mode, fromPoints of the points toPoints gave for a
\* finite value is that value, and toPoints is linear: the points of 0 are
\* 0 and the points of a sum are the sum of the points
C21_RoundTripAndLinear ==
  /\ call.name = "fromPoints" => SameNumber(call.args[2], call.args[3])
  /\ Converted =>
        /\ SameNumber(toPointsExact(pdf.scaleMode, Quotient(0, 1)), Quotient(0, 1))
        /\ \A other \in Values :
              IsFiniteQuotient(other) =>
                SameNumber(toPointsExact(pdf.scaleMode, Sum(ConvertedValue, other)),
                           Sum(ConvertedPoints, toPointsExact(pdf.scaleMode, other)))

\* a third of a hundredth of an inch came back from 6/25 of a point
C21_Witness ==
  /\ call.name = "fromPoints"
  /\ pdf.scaleMode = "Hundredths"
  /\ call.args[3] = Quotient(1, 3)
  /\ SameNumber(call.args[1], Quotient(6, 25))
  /\ SameNumber(call.args[2], Quotient(1, 3))

\* the points of one unit of a scale mode, as a quotient
PointsPerUnit(mode) ==
  CASE mode = "Hundredths" -> Quotient(72, 100)
    [] mode = "Inches" -> Quotient(72, 1)
    [] mode = "Centimeters" -> Quotient(7200, 254)
    [] mode = "Millimeters" -> Quotient(720, 254)
    [] mode = "Points" -> Quotient(1, 1)

\* C29: in every scale mode the setter accepts, toPoints gives the value
\* times the points of one unit of that mode
C29_EveryModeConverts ==
  Converted =>
    SameNumber(ConvertedPoints,
               Quotient(ConvertedValue.num * PointsPerUnit(pdf.scaleMode).num,
                        ConvertedValue.den * PointsPerUnit(pdf.scaleMode).den))

-----------------------------------------------------------------------------
(* Properties of a document of several pages *)

\* the operators of the call up to the i-th one
Before(ops, i) == SubSeq(ops, 1, i - 1)

\* where the call stroked a path
Strokes(ops) == {i \in 1..Len(ops) : ops[i].op = "StrokePath"}

\* C22: whenever a path is stroked on a page, the line width, cap, join and
\* dash in force in that page's stream are those of the style captured for
\* the path, on a later page of the document as on the first.
C22_StrokedUnderCapturedStyle ==
  [][(pdf.segments # <<>> /\ pdf'.err = "none")
       => \A i \in Strokes(pdf'.out) :
            GsAfterAll(pdf.gs, Before(pdf'.out, i)) = GsOf(pdf.startLineStyle)]_vars

\* the text-show operators of a call, by the font key they are shown with
ShownWith(ops) == {ops[i].args[1] : i \in {j \in 1..Len(ops) : ops[j].op = "SetFontAndSize"}}

\* C23: every text-show of a call refers to a font key that is in the font
\* resources of the page the text is shown on, on a later page of the
\* document as on the page where the font was used first.
C23_ShownFontIsPageResource ==
  (Written /\ pdf.err = "none") => ShownWith(pdf.out) \subseteq pdf.pageFonts

-----------------------------------------------------------------------------
(* Properties of applying the line style *)

\* how many operators of that name a run of operators has
Count(ops, name) == Len(SelectSeq(ops, LAMBDA o : o.op = name))

\* one operator of that name if the condition holds, else none
OnceIf(ops, name, condition) == Count(ops, name) = IF condition THEN 1 ELSE 0

C25_NothingPendingAppliesStyleOnly ==
  [][(call'.name \in {"finishLine", "finishPolygon"} /\ pdf.segments = <<>> /\ pdf'.err = "none")
       => /\ pdf'.out = applyLineStyleOps(CurrentLineStyle(pdf), pdf.lastSetLineStyle)
          /\ \A i \in 1..Len(pdf'.out) : pdf'.out[i].op \in StyleOperators
          /\ pdf'.positionInternal = pdf.positionInternal
          /\ pdf'.segments = <<>>
          /\ pdf'.start = pdf.start
          /\ pdf'.lastSetLineStyle = <<CurrentLineStyle(pdf)>>]_vars

\* finishPolygon with a border was called with nothing pending after the
\* style was changed: it pushed line style operators and nothing else
C25_Witness ==
  /\ call.name = "finishPolygon"
  /\ call.args[1]
  /\ pdf.err = "none"
  /\ pdf.out # <<>>
  /\ \A i \in 1..Len(pdf.out) : pdf.out[i].op \in StyleOperators

-----------------------------------------------------------------------------
(* Properties of the adjusted text-show *)

RECURSIVE SumWidths(_)
SumWidths(glyphs) == IF glyphs = <<>> THEN 0 ELSE GlyphWidth(Head(glyphs)) + SumWidths(Tail(glyphs))

\* what a viewer advances over the array: the advance widths of the glyphs
\* of a string, and a number moves back by its value
RECURSIVE Advance(_)
Advance(array) ==
  IF array = <<>> THEN 0
  ELSE SumWidths(Head(array).glyphs) - Head(array).number + Advance(Tail(array))

\* the glyphs of the array, in order
RECURSIVE Shown(_)
Shown(array) == IF array = <<>> THEN <<>> ELSE Head(array).glyphs \o Shown(Tail(array))

\* the elements of the array up to the one with the i-th glyph, and of that
\* one the glyphs before the i-th
RECURSIVE UpToGlyph(_, _)
UpToGlyph(array, i) ==
  IF Len(Head(array).glyphs) >= i
    THEN <<[Head(array) EXCEPT !.glyphs = SubSeq(@, 1, i - 1)]>>
    ELSE <<Head(array)>> \o UpToGlyph(Tail(array), i - Len(Head(array).glyphs))

\* where a viewer draws the i-th glyph of the array
DrawnAt(array, i) == Advance(UpToGlyph(array, i))

\* where the layout has the i-th glyph of the text
RECURSIVE LaidOutAt(_, _, _)
LaidOutAt(familyName, text, i) ==
  IF i = 1 THEN 0
  ELSE LaidOutAt(familyName, text, i - 1) + GlyphWidth(text[i - 1])
       + KerningAfter(familyName, text, i - 1)

\* the array shows the text as the layout has it: the same glyphs, each where
\* the layout has it, and the same advance in all
ShownAsLaidOut(familyName, text, array) ==
  /\ Shown(array) = text
  /\ Advance(array) = calculateKernedTextWidth(familyName, text)
  /\ \A i \in 1..Len(text) : DrawnAt(array, i) = LaidOutAt(familyName, text, i)

\* C26: with a custom font, what the array of the adjusted text-show
\* advances in all is the width calculateKernedTextWidth gives for the text,
\* and the kerning of every two neighbours, the first two glyphs included,
\* lies between those two glyphs.
C26_CustomShownAsLaidOut ==
  (call.name = "showTextAdjusted" /\ call.args[1] \notin StandardFamilies)
    => ShownAsLaidOut(call.args[1], call.args[2], call.args[3])

\* with a standard font the array shows the text as the layout has it
StandardShownAsLaidOut ==
  (call.name = "showTextAdjusted" /\ call.args[1] \in StandardFamilies)
    => ShownAsLaidOut(call.args[1], call.args[2], call.args[3])

-----------------------------------------------------------------------------
(* Properties of the hanging indent *)

\* the run of text that shows line i of the last call, when every line is
\* one run
RunOf(i) == Cardinality({j \in RenderedLines : j <= i})

\* where line i of the last call ends on the page, in points: where its run
\* starts, and the width it was drawn with
LineEnd(i) == TextMatrices[RunOf(i)].args[2] + toPoints(pdf.scaleMode, pdf.lines[i].width)

\* line i of the last call is a continuation line of two or more words
Continuation(i) ==
  /\ i > 1
  /\ pdf.lines[i].indent
  /\ Len(splitWords(pdf.lines[i].text, <<>>)) >= 2
  /\ \A k \in 1..Len(splitWords(pdf.lines[i].text, <<>>)) :
        Len(splitWords(pdf.lines[i].text, <<>>)[k]) > 0

\* C27: when left-aligned text is wrapped to a width with a positive hanging
\* indent, every continuation line of two or more words ends at or before
\* the left edge of the paragraph plus the width.
C27_ContinuationEndsWithinWidth ==
  (WrappedWrite /\ pdf.textAlignment \in LeftAlignments /\ CurrentFont(pdf).hangingIndent > 0)
    => \A i \in RenderedLines :
         Continuation(i)
           => LineEnd(i) <= pdf.lines[1].at.x + toPoints(pdf.scaleMode, call.args[2][1])

-----------------------------------------------------------------------------
(* Properties of the symbols of Code 128 *)

\* the characters of a code set, and the value of a character in it
InSet(set, char) == IF set = "A" THEN char \in 0..95 ELSE char \in 32..127
ValueIn(set, char) == IF set = "A" /\ char < 32 THEN char + 64 ELSE char - 32

\* the symbol that switches to a code set
SwitchTo(set) == IF set = "B" THEN 100 ELSE IF set = "A" THEN 101 ELSE 99

\* the symbols are the data symbols of the characters, read from a code set
\* on: in C a pair of digits is one symbol of its value, and C is left by a
\* switch symbol before the first character that is no pair of digits; in A
\* and B a character of the set is the symbol of its value, and a switch
\* symbol to the other of the two stands before a character that is not in
\* the set; no symbol switches to C
RECURSIVE DataSymbols(_, _, _)
DataSymbols(symbols, set, data) ==
  IF data = <<>> THEN symbols = <<>>
  ELSE IF symbols = <<>> THEN FALSE
  ELSE IF set = "C"
    THEN IF Len(data) >= 2 /\ AllDigits(SubSeq(data, 1, 2))
           THEN /\ Head(symbols) = 10 * (data[1] - 48) + (data[2] - 48)
                /\ DataSymbols(Tail(symbols), "C", SubSeq(data, 3, Len(data)))
           ELSE \E to \in {"A", "B"} :
                  /\ Head(symbols) = SwitchTo(to)
                  /\ InSet(to, data[1])
                  /\ DataSymbols(Tail(symbols), to, data)
  ELSE IF InSet(set, data[1])
    THEN /\ Head(symbols) = ValueIn(set, data[1])
         /\ Head(symbols) # SwitchTo("C")
         /\ DataSymbols(Tail(symbols), set, Tail(data))
  ELSE LET other == IF set = "A" THEN "B" ELSE "A"
       IN  /\ Head(symbols) = SwitchTo(other)
           /\ DataSymbols(Tail(symbols), other, data)

\* the start symbol weighs 1, every later symbol its position after the start
RECURSIVE Weighted(_, _)
Weighted(symbols, position) ==
  IF symbols = <<>> THEN 0
  ELSE Head(symbols) * position + Weighted(Tail(symbols), position + 1)

StartSet(start) == CASE start = 103 -> "A" [] start = 104 -> "B" [] start = 105 -> "C"

\* the pattern of the stop symbol
StopPattern == patterns[107]

\* the string ends with the other one
EndsWith(string, end) ==
  /\ Len(string) >= Len(end)
  /\ SubSeq(string, Len(string) - Len(end) + 1, Len(string)) = end

\* C28: every output of createCode128 is one start symbol (103, 104 or
\* 105), the data symbols with a switch symbol (100 to B, 101 to A) before
\* the first character that is not in the current set, one check symbol
\* that is the start value plus the sum of every later symbol's value times
\* its position, modulo 103, and the stop pattern; once code set C is left,
\* no symbol returns to it.
C28_StartDataCheckStop ==
  Encoded /\ EncodingResult.err = "none" =>
    LET codes == EncodingResult.codes
        n == Len(codes)
        symbols == SubSeq(codes, 2, n - 2)
    IN  /\ n >= 4
        /\ codes[1] \in {103, 104, 105}
        /\ \A k \in 2..n : codes[k] \notin {103, 104, 105}
        /\ DataSymbols(symbols, StartSet(codes[1]), EncodedData)
        /\ codes[n - 1] = (codes[1] + Weighted(symbols, 1)) % 103
        /\ codes[n] = 106
        /\ EncodingResult.pattern = joinPatterns(codes)
        /\ EndsWith(EncodingResult.pattern, StopPattern)

\* five digits were encoded as two pairs in code set C, a switch to B and
\* the last digit, with the check symbol 94
C28_Witness ==
  /\ Encoded
  /\ EncodingResult.err = "none"
  /\ EncodedData = <<49, 49, 49, 49, 49>>
  /\ EncodingResult.codes = <<105, 11, 11, 100, 17, 94, 106>>

-----------------------------------------------------------------------------
(* Properties of the margins *)

\* C30: at all times the translation that the margin operators pushed into
\* the current page have applied to its coordinate system is the stored
\* left and top margin, after newPage and after any assignment of margins
\* and call of offsetMargins, those that raise an error included.
C30_TranslationIsStoredMargins ==
  pdf.pdfPage > 0 => pdf.ctm = Point(pdf.marginsInternal.left, pdf.marginsInternal.top)

====
